---- MODULE Spec2Model ----
(***************************************************************************)
(* Model of the lm-sensors Rust binding: the process-wide access lock, the *)
(* singleton library instance (LMSensors), the error reporter and its      *)
(* listener, the lock-protected backend operations and the iterators.      *)
(*                                                                         *)
(* Threads run the operations of the crate step by step; a step is one     *)
(* statement (or one run of statements that touch no shared state) of the  *)
(* Rust source.  An operation that has finished leaves its thread at       *)
(* "done" with the result in the thread's locals until the caller takes    *)
(* the result (Return).  The sensor backend (libsensors) is an external    *)
(* library: what it returns and which callback it raises is chosen         *)
(* nondeterministically from small sets.                                   *)
(***************************************************************************)
EXTENDS Integers, Sequences, FiniteSets, TLC

(***************************************************************************)
(* Bounds of the model.                                                    *)
(***************************************************************************)
MaxListeners == 2
MaxParseErrors == 1
MaxStatus == 1
MaxChips == 2
MaxNameLen == 1
MaxParsed == 1

\* Two threads: enough for every interleaving of two operations.
Threads == {1, 2}
\* The mutex is created unlocked (utils.rs:25).
NoThread == 0

\* A null `*mut Box<dyn Listener>`; the custom listeners are 1..MaxListeners.
NullListener == 0
ListenerIds == 1..MaxListeners
\* What a callback calls when ERROR_LISTENER is null (errors.rs:174-175): the
\* static DefaultListener, which is no heap pointer.
DefaultListener == MaxListeners + 1
\* The backend's own handler, called when a slot holds the backend's default.
BackendHandler == MaxListeners + 2

\* Status codes the backend returns: 0 or a negative error number.
BackendStatuses == (0 - MaxStatus)..0

VARIABLES
    lockHolder,      \* owner of the mutex of api_access_lock(), or NoThread
    poisoned,        \* poison flag of that mutex
    INITIALIZED,     \* static INITIALIZED: AtomicBool (lib.rs:338)
    ERROR_LISTENER,  \* static ERROR_LISTENER: AtomicPtr (errors.rs:138)
    callBacks,       \* the backend's three global callback slots
    backendSessions, \* successful sensors_init() calls minus sensors_cleanup() calls
    listenerState,   \* heap state of each custom listener
    aborted,         \* the process was terminated
    fatalReturned,   \* a listener has returned from on_lm_sensors_fatal_error
    iters,           \* the iterators: table, pattern, cursor and what they have yielded
    pc,              \* position of each thread
    op,              \* operation each thread is running
    loc,             \* local variables of each thread's running operation
    libs,            \* LMSensors instances owned by each thread (their Reporter)
    chips,           \* the chip records sensors_parse_chip_name has filled
    calc             \* the last call of a pure function: its arguments and result

vars == <<lockHolder, poisoned, INITIALIZED, ERROR_LISTENER, callBacks,
          backendSessions, listenerState, aborted, fatalReturned, iters,
          pc, op, loc, libs, chips, calc>>

(***************************************************************************)
(* The callback slots.                                                     *)
(***************************************************************************)
\* The slots as the backend left them.
BackendCallBacks ==
    [parse_error |-> "sensors_default_parse_error",
     parse_error_wfn |-> "sensors_default_parse_error_wfn",
     fatal_error |-> "sensors_default_fatal_error"]

\* CallBacks::new(Self::parse_error, Self::parse_error_wfn, Self::fatal_error)
ReporterCallBacks ==
    [parse_error |-> "Reporter::parse_error",
     parse_error_wfn |-> "Reporter::parse_error_wfn",
     fatal_error |-> "Reporter::fatal_error"]

(***************************************************************************)
(* Results (errors.rs: enum Error).                                        *)
(***************************************************************************)
NoResult == [tag |-> "None", operation |-> "", number |-> 0, kind |-> ""]
Ok == [tag |-> "Ok", operation |-> "", number |-> 0, kind |-> ""]
\* A yielded iterator item and the end of an iteration.
Some(i) == [tag |-> "Some", operation |-> "", number |-> i, kind |-> ""]
None == [tag |-> "NoneItem", operation |-> "", number |-> 0, kind |-> ""]

Abs(n) == IF n < 0 THEN 0 - n ELSE n

\* Error::from_lm_sensors
from_lm_sensors(operation, number) ==
    [tag |-> "LMSensors", operation |-> operation, number |-> Abs(number), kind |-> ""]

\* Error::from_io with an io::ErrorKind
from_io(operation, kind) ==
    [tag |-> "IO", operation |-> operation, number |-> 0, kind |-> kind]

\* Mutation: a poisoned lock yields an ordinary success.
PoisonedLMSensors_ignored == Ok

\* Error::PoisonedLMSensors(PoisonError<MutexGuard>): the error value owns the
\* guard, so the mutex stays locked until the error is dropped.
PoisonedLMSensors == [tag |-> "Poisoned", operation |-> "", number |-> 0, kind |-> ""]

(***************************************************************************)
(* The operations that call the backend once under the lock.               *)
(***************************************************************************)
\* Operations on a handle borrowed from a live LMSensors.
HandleOps == {"new_chip", "raw_value", "set_raw_value", "do_chip_sets",
              "raw_name", "raw_label", "sub_feature_by_raw_kind"}

\* Bus::raw_name: a Bus is a plain value with no lifetime.
FreeOps == {"bus_raw_name"}

\* Operations whose backend call returns a status code.
StatusOps == {"new_chip", "raw_value", "set_raw_value", "do_chip_sets"}

\* Operations whose backend call returns a pointer (0 stands for null).
PointerOps == {"raw_label", "sub_feature_by_raw_kind", "bus_raw_name"}

\* The operation name each error carries.
OperationName(o) ==
    CASE o = "initialize" -> "sensors_init()"
      [] o = "new_chip" -> "sensors_parse_chip_name()"
      [] o = "raw_value" -> "sensors_get_value()"
      [] o = "set_raw_value" -> "sensors_set_value()"
      [] o = "do_chip_sets" -> "sensors_do_chip_sets()"
      [] o = "raw_name" -> "sensors_snprintf_chip_name()"
      [] o = "raw_label" -> "sensors_get_label()"
      [] o = "sub_feature_by_raw_kind" -> "sensors_get_subfeature"
      [] o = "bus_raw_name" -> "sensors_get_adapter_name"
      [] OTHER -> ""

(***************************************************************************)
(* The backend's chip table and the iterators over it.                     *)
(***************************************************************************)
\* Bus types of the detected which a match pattern selects on.
BusTypes == {"isa", "pci"}

\* The tables the backend may detect: up to MaxChips chips.
ChipTables == UNION {[1..n -> BusTypes] : n \in 0..MaxChips}

\* One iterator at a time: an iterator shares nothing with another, its table
\* and cursor are its own.
IterIds == {1}

\* The iterators of the sibling scenario: two chip iterators of one instance.
SiblingIds == IterIds \cup {2}
IterKinds == {"chip", "feature", "sub_feature"}

\* No match pattern: chip_iter(None), and every feature or sub-feature iterator.
NoPattern == "any"

\* The match patterns of chip_iter: none, or the chips on one bus.
Patterns == {NoPattern, "isa"}

\* An iterator that does not exist.
NoIter ==
    [owner |-> NoThread, kind |-> "chip", state |-> 0, match_pattern |-> NoPattern,
     entries |-> <<>>, yielded |-> <<>>, ended |-> FALSE, restarted |-> FALSE]

(***************************************************************************)
(* The local variables of a running operation.                             *)
(***************************************************************************)
NoLocals ==
    [ret |-> 0,                       \* what the backend returned
     called |-> FALSE,                \* the backend call has returned
     res |-> NoResult,                \* the result of the operation
     error_listener |-> NullListener, \* the raw listener of initialize() / drop()
     reporter |-> <<>>,               \* the Reporter of new() / drop()
     before |-> <<>>,                 \* the global state when new() took the lock
     chip |-> 0,                      \* the chip record of Chip::new() / drop()
     buffer |-> 0,                    \* length of the buffer of raw_name()
     written |-> 0,                   \* characters the backend wrote into the buffer
     iter |-> 0,                      \* the iterator of next()
     parseCount |-> 0,                \* parse diagnostics raised by this sensors_init()
     retpc |-> "idle",                \* where a callback returns to
     cbListener |-> NullListener,     \* the listener a running callback has called
     sawPoison |-> FALSE,             \* lock() returned a PoisonError
     liveAtLock |-> FALSE,            \* an instance was live when lock() returned
     wasEnded |-> FALSE]              \* the iterator of next() had returned None before

\* Instances that exist: owned by a thread, or being dropped by it.
LiveInstances(t) ==
    Len(libs[t]) + (IF op[t] = "drop" /\ loc[t].reporter # <<>> THEN 1 ELSE 0)

AnyLive == \E t \in Threads : LiveInstances(t) > 0

\* A chip record no parse has filled yet.  A filled record is held by a Chip
\* ("owned"), by the caller as raw parts ("raw"), by a Chip being dropped
\* ("dropping") or by nothing any more ("dropped"); `wrapped` tells that
\* new_raw_chip has wrapped it; `frees` counts the calls of
\* sensors_free_chip_name on it.
NoChip == [state |-> "none", owner |-> NoThread, wrapped |-> FALSE, frees |-> 0]

\* No pure function has been called yet.
NoCalc == [fn |-> "none"]

\* The state of the library, which a pure function neither reads nor writes.
library == <<lockHolder, poisoned, INITIALIZED, ERROR_LISTENER, callBacks,
             backendSessions, listenerState, aborted, fatalReturned, iters,
             pc, op, loc, libs, chips>>

(***************************************************************************)
(* Initial state: nothing initialized, the static listener pointer null,   *)
(* the backend's own callbacks in the slots.                               *)
(***************************************************************************)
Init ==
    /\ lockHolder = NoThread
    /\ poisoned = FALSE
    /\ INITIALIZED = FALSE
    /\ ERROR_LISTENER = NullListener
    /\ callBacks = BackendCallBacks
    /\ backendSessions = 0
    /\ listenerState = [l \in ListenerIds |-> "unused"]
    /\ aborted = FALSE
    /\ fatalReturned = FALSE
    /\ iters = [i \in SiblingIds |-> NoIter]
    /\ pc = [t \in Threads |-> "idle"]
    /\ op = [t \in Threads |-> "none"]
    /\ loc = [t \in Threads |-> NoLocals]
    /\ libs = [t \in Threads |-> <<>>]
    /\ chips = [c \in 1..MaxParsed |-> NoChip]
    /\ calc = NoCalc

(***************************************************************************)
(* The mutex behind api_access_lock() (utils.rs:20-29).                    *)
(***************************************************************************)
\* Mutation: lock() never blocks.
CanLock_free(t) == TRUE

\* Mutex::lock blocks until the mutex is free; it takes the mutex also when
\* the mutex is poisoned (the guard then travels inside the PoisonError).
CanLock(t) == lockHolder = NoThread

\* The thread may start an operation.
Ready(t) ==
    /\ ~aborted
    /\ pc[t] = "idle"

\* drop(Box::from_raw(listener))
FreeListener(state, l) ==
    IF l = NullListener THEN state
    ELSE [state EXCEPT ![l] = IF @ = "boxed" THEN "freed" ELSE "double_freed"]

\* The custom listener a new Initializer may carry: none, or a fresh Box.
FreshListeners ==
    LET unused == {l \in ListenerIds : listenerState[l] = "unused"}
    IN {NullListener} \cup {l \in unused : \A k \in unused : l <= k}

\* The caller takes the result of a finished operation and drops it; a
\* Poisoned error releases the guard it owns.
Return(t) ==
    /\ ~aborted
    /\ pc[t] = "done"
    /\ lockHolder' = IF lockHolder = t THEN NoThread ELSE lockHolder
    /\ pc' = [pc EXCEPT ![t] = "idle"]
    /\ op' = [op EXCEPT ![t] = "none"]
    /\ loc' = [loc EXCEPT ![t] = NoLocals]
    /\ UNCHANGED <<poisoned, INITIALIZED, ERROR_LISTENER, callBacks,
                   backendSessions, listenerState, aborted, fatalReturned,
                   iters, libs>>
    /\ UNCHANGED <<calc, chips>>

(***************************************************************************)
(* Reporter (errors.rs:146-163) and CallBacks (utils.rs:43-88).            *)
(***************************************************************************)
\* CallBacks::replace: install `new` in the three slots (the previous triple is
\* the value of callBacks before the step, kept by Reporter_previous).
CallBacks_replace(new) == callBacks' = new

\* CallBacks::set
CallBacks_set(saved) == callBacks' = saved

\* The Reporter that Reporter::new returns: what was installed before it.
Reporter_previous ==
    [previous_error_listener |-> ERROR_LISTENER,
     previous_call_backs |-> callBacks]

\* Mutation: the callbacks are replaced but the listener is not installed.
Reporter_new_unset(listener) ==
    /\ ERROR_LISTENER' = ERROR_LISTENER
    /\ CallBacks_replace(ReporterCallBacks)

\* Reporter::new: swap the listener pointer in, replace the callbacks.
Reporter_new(listener) ==
    /\ ERROR_LISTENER' = listener
    /\ CallBacks_replace(ReporterCallBacks)

\* Mutation: restore puts the callbacks back but not the listener.
Reporter_restore_callbacks(saved) ==
    /\ CallBacks_set(saved.previous_call_backs)
    /\ ERROR_LISTENER' = ERROR_LISTENER

\* Reporter::restore: put the saved callbacks and listener back; its return
\* value is the listener pointer that was installed (ERROR_LISTENER before).
Reporter_restore(saved) ==
    /\ CallBacks_set(saved.previous_call_backs)
    /\ ERROR_LISTENER' = saved.previous_error_listener

(***************************************************************************)
(* Initializer::initialize (lib.rs:317-335) and LMSensors::new             *)
(* (lib.rs:472-506).                                                       *)
(***************************************************************************)
\* The global state of the crate: the listener pointer, the three callback
\* slots of the backend and the flag (errors.rs:138, lib.rs:338).
GlobalState ==
    [error_listener |-> ERROR_LISTENER, call_backs |-> callBacks,
     initialized |-> INITIALIZED]

\* initialize() up to the call of LMSensors::new: open the configuration
\* (LibCFileStream::from_file / from_path), then box the listener.  A
\* configuration that cannot be opened returns the I/O error at once; the
\* Initializer and the listener it owns are dropped.
Initialize(t) ==
    /\ Ready(t)
    /\ \E l \in FreshListeners, configOk \in BOOLEAN :
        LET boxed == IF l = NullListener THEN listenerState
                     ELSE [listenerState EXCEPT ![l] = "boxed"]
        IN IF configOk
           THEN /\ listenerState' = boxed
                /\ loc' = [loc EXCEPT ![t].error_listener = l]
                /\ pc' = [pc EXCEPT ![t] = "new_lock"]
           ELSE /\ listenerState' = FreeListener(boxed, l)
                /\ loc' = [loc EXCEPT ![t].res = from_io("fopen()", "Os")]
                /\ pc' = [pc EXCEPT ![t] = "done"]
    /\ op' = [op EXCEPT ![t] = "initialize"]
    /\ UNCHANGED <<lockHolder, poisoned, INITIALIZED, ERROR_LISTENER, callBacks,
                   backendSessions, aborted, fatalReturned, iters, libs>>
    /\ UNCHANGED <<calc, chips>>

\* lib.rs:480 `api_access_lock().lock()?`: a poisoned mutex makes new() return
\* the Poisoned error (which owns the guard); initialize() then frees the
\* listener (lib.rs:331-333).
NewLock(t) ==
    /\ ~aborted
    /\ pc[t] = "new_lock"
    /\ CanLock(t)
    /\ lockHolder' = t
    /\ IF poisoned
       THEN /\ loc' = [loc EXCEPT ![t].res = PoisonedLMSensors,
                                  ![t].sawPoison = TRUE,
                                  ![t].liveAtLock = AnyLive,
                                  ![t].before = <<GlobalState>>]
            /\ listenerState' = FreeListener(listenerState, loc[t].error_listener)
            /\ pc' = [pc EXCEPT ![t] = "done"]
       ELSE /\ loc' = [loc EXCEPT ![t].liveAtLock = AnyLive,
                                  ![t].before = <<GlobalState>>]
            /\ pc' = [pc EXCEPT ![t] = "new_check"]
            /\ UNCHANGED listenerState
    /\ UNCHANGED <<poisoned, INITIALIZED, ERROR_LISTENER, callBacks,
                   backendSessions, aborted, fatalReturned, iters, op,
                   libs>>
    /\ UNCHANGED <<calc, chips>>

\* Mutation: the INITIALIZED flag is not consulted.
AlreadyInitialized_never == FALSE

\* lib.rs:482 `if INITIALIZED.load(..)`.
AlreadyInitialized == INITIALIZED

\* lib.rs:482-492: an instance exists: unlock, AlreadyExists (and initialize()
\* frees the listener); otherwise Reporter::new and the call of sensors_init().
NewCheck(t) ==
    /\ ~aborted
    /\ pc[t] = "new_check"
    /\ IF AlreadyInitialized
       THEN /\ lockHolder' = NoThread
            /\ loc' = [loc EXCEPT ![t].res = from_io("sensors_init()", "AlreadyExists")]
            /\ listenerState' = FreeListener(listenerState, loc[t].error_listener)
            /\ pc' = [pc EXCEPT ![t] = "done"]
            /\ UNCHANGED <<ERROR_LISTENER, callBacks>>
       ELSE /\ loc' = [loc EXCEPT ![t].reporter = <<Reporter_previous>>]
            /\ Reporter_new(loc[t].error_listener)
            /\ pc' = [pc EXCEPT ![t] = "sensors_init"]
            /\ UNCHANGED <<lockHolder, listenerState>>
    /\ UNCHANGED <<poisoned, INITIALIZED, backendSessions, aborted,
                   fatalReturned, iters, op, libs>>
    /\ UNCHANGED <<calc, chips>>

(***************************************************************************)
(* Callbacks raised by the backend while a thread is inside a backend call *)
(* made under the lock (errors.rs:165-189).                                *)
(***************************************************************************)
\* The positions at which a thread is inside a backend function that it
\* called with the guard alive.
LockedCalls ==
    {"sensors_init", "sensors_cleanup", "backend_call", "backend_call2", "iter_call"}

\* errors.rs:174-175 and 184-185: the listener a callback calls.
CurrentListener ==
    IF ERROR_LISTENER = NullListener THEN DefaultListener ELSE ERROR_LISTENER

\* The backend reports a configuration parse diagnostic through one of its two
\* parse-error slots.  Reporter::parse_error forwards to parse_error_wfn,
\* which calls on_lm_sensors_config_error of the current listener; the
\* backend's own handlers print the diagnostic.
BackendParseError(t) ==
    /\ ~aborted
    /\ pc[t] = "sensors_init"
    /\ loc[t].parseCount < MaxParseErrors
    /\ \E slot \in {"parse_error", "parse_error_wfn"} :
        IF callBacks[slot] \in {"Reporter::parse_error", "Reporter::parse_error_wfn"}
        THEN /\ loc' = [loc EXCEPT ![t].parseCount = @ + 1,
                                   ![t].cbListener = CurrentListener,
                                   ![t].retpc = pc[t]]
             /\ pc' = [pc EXCEPT ![t] = "on_config_error"]
        ELSE /\ loc' = [loc EXCEPT ![t].parseCount = @ + 1,
                                   ![t].cbListener = BackendHandler]
             /\ UNCHANGED pc
    /\ UNCHANGED <<lockHolder, poisoned, INITIALIZED, ERROR_LISTENER, callBacks,
                   backendSessions, listenerState, aborted, fatalReturned,
                   iters, op, libs>>
    /\ UNCHANGED <<calc, chips>>

\* on_lm_sensors_config_error returns: the callback returns to the backend.
ConfigListenerReturns(t) ==
    /\ ~aborted
    /\ pc[t] = "on_config_error"
    /\ pc' = [pc EXCEPT ![t] = loc[t].retpc]
    /\ UNCHANGED <<lockHolder, poisoned, INITIALIZED, ERROR_LISTENER, callBacks,
                   backendSessions, listenerState, aborted, fatalReturned,
                   iters, op, loc, libs>>
    /\ UNCHANGED <<calc, chips>>

\* The backend reports a fatal error during any call made under the lock.
\* With the crate's callback in the slot, Reporter::fatal_error calls
\* on_lm_sensors_fatal_error of the current listener; the backend's own
\* handler ends the process.
BackendFatalError(t) ==
    /\ ~aborted
    /\ pc[t] \in LockedCalls
    /\ IF callBacks.fatal_error = "Reporter::fatal_error"
       THEN /\ loc' = [loc EXCEPT ![t].cbListener = CurrentListener,
                                  ![t].retpc = pc[t]]
            /\ pc' = [pc EXCEPT ![t] = "on_fatal_error"]
            /\ UNCHANGED aborted
       ELSE /\ loc' = [loc EXCEPT ![t].cbListener = BackendHandler]
            /\ aborted' = TRUE
            /\ UNCHANGED pc
    /\ UNCHANGED <<lockHolder, poisoned, INITIALIZED, ERROR_LISTENER, callBacks,
                   backendSessions, listenerState, fatalReturned, iters,
                   op, libs>>
    /\ UNCHANGED <<calc, chips>>

\* Mutation: the callback returns to the backend instead of aborting.
AfterFatalListener_returns(t) ==
    /\ pc' = [pc EXCEPT ![t] = loc[t].retpc]
    /\ UNCHANGED aborted

\* errors.rs:188: process::abort() after the listener has returned.
AfterFatalListener(t) ==
    /\ aborted' = TRUE
    /\ UNCHANGED pc

\* on_lm_sensors_fatal_error returns.
FatalListenerReturns(t) ==
    /\ ~aborted
    /\ pc[t] = "on_fatal_error"
    /\ fatalReturned' = TRUE
    /\ AfterFatalListener(t)
    /\ UNCHANGED <<lockHolder, poisoned, INITIALIZED, ERROR_LISTENER, callBacks,
                   backendSessions, listenerState, iters, op, loc, libs>>
    /\ UNCHANGED <<calc, chips>>

\* A custom listener panics inside the extern "C" callback.  Unwinding out of
\* an extern "C" function is undefined: the build either aborts the process
\* or unwinds through the backend's frames into the Rust caller.  Unwinding
\* drops the guard while panicking, which poisons and unlocks the mutex; the
\* Reporter local to new() has no Drop, so nothing is restored; every Chip
\* and every LMSensors the thread owns is dropped against the poisoned mutex
\* (chip.rs:168-173, lib.rs:512-523), which skips sensors_free_chip_name,
\* cleanup and restore; the thread ends.
ListenerPanics(t) ==
    /\ ~aborted
    /\ pc[t] \in {"on_config_error", "on_fatal_error"}
    /\ loc[t].cbListener \in ListenerIds
    /\ \/ /\ aborted' = TRUE
          /\ UNCHANGED <<lockHolder, poisoned, pc, op, loc, libs, iters, chips>>
       \/ /\ lockHolder' = IF lockHolder = t THEN NoThread ELSE lockHolder
          /\ poisoned' = (poisoned \/ lockHolder = t)
          /\ pc' = [pc EXCEPT ![t] = "dead"]
          /\ op' = [op EXCEPT ![t] = "none"]
          /\ loc' = [loc EXCEPT ![t] = NoLocals]
          /\ libs' = [libs EXCEPT ![t] = <<>>]
          /\ iters' = [i \in SiblingIds |-> IF iters[i].owner = t THEN NoIter ELSE iters[i]]
          /\ chips' = [c \in 1..MaxParsed |->
                          IF chips[c].owner = t /\ chips[c].state = "owned"
                          THEN [chips[c] EXCEPT !.state = "dropped"]
                          ELSE chips[c]]
          /\ UNCHANGED aborted
    /\ UNCHANGED <<INITIALIZED, ERROR_LISTENER, callBacks, backendSessions,
                   listenerState, fatalReturned>>
    /\ UNCHANGED calc

(***************************************************************************)
(* LMSensors::new, continued (lib.rs:492-505).                             *)
(***************************************************************************)
\* sensors_init() returns its status.
SensorsInitReturns(t) ==
    /\ ~aborted
    /\ pc[t] = "sensors_init"
    /\ \E r \in BackendStatuses :
        /\ loc' = [loc EXCEPT ![t].ret = r, ![t].called = TRUE]
        /\ backendSessions' = IF r = 0 THEN backendSessions + 1 ELSE backendSessions
    /\ pc' = [pc EXCEPT ![t] = "new_ret"]
    /\ UNCHANGED <<lockHolder, poisoned, INITIALIZED, ERROR_LISTENER, callBacks,
                   listenerState, aborted, fatalReturned, iters, op, libs>>
    /\ UNCHANGED <<calc, chips>>

\* Mutation: the test of the status is inverted.
InitSucceeded_inverted(r) == r # 0

\* lib.rs:493 `if r == 0`.
InitSucceeded(r) == r = 0

\* lib.rs:493-505: status 0 sets INITIALIZED and returns the instance (the
\* guard dies at the return); any other status restores the reporter, unlocks
\* and builds the error, which calls sensors_strerror().
NewFinish(t) ==
    /\ ~aborted
    /\ pc[t] = "new_ret"
    /\ IF InitSucceeded(loc[t].ret)
       THEN /\ INITIALIZED' = TRUE
            /\ libs' = [libs EXCEPT ![t] = Append(@, loc[t].reporter[1])]
            /\ loc' = [loc EXCEPT ![t].res = Ok, ![t].reporter = <<>>]
            /\ pc' = [pc EXCEPT ![t] = "done"]
            /\ UNCHANGED <<ERROR_LISTENER, callBacks>>
       ELSE /\ Reporter_restore(loc[t].reporter[1])
            /\ loc' = [loc EXCEPT ![t].reporter = <<>>]
            /\ pc' = [pc EXCEPT ![t] = "sensors_strerror"]
            /\ UNCHANGED <<INITIALIZED, libs>>
    /\ lockHolder' = NoThread
    /\ UNCHANGED <<poisoned, backendSessions, listenerState, aborted,
                   fatalReturned, iters, op>>
    /\ UNCHANGED <<calc, chips>>

\* Error::from_lm_sensors (errors.rs:74-87) calls sensors_strerror(); every
\* caller has released the guard before it builds the error.  The operation
\* then returns the LMSensors error; initialize() also frees its listener
\* (lib.rs:331-333).
SensorsStrerrorReturns(t) ==
    /\ ~aborted
    /\ pc[t] = "sensors_strerror"
    /\ loc' = [loc EXCEPT ![t].res = from_lm_sensors(OperationName(op[t]), loc[t].ret)]
    /\ listenerState' = IF op[t] = "initialize"
                        THEN FreeListener(listenerState, loc[t].error_listener)
                        ELSE listenerState
    /\ pc' = [pc EXCEPT ![t] = "done"]
    /\ UNCHANGED <<lockHolder, poisoned, INITIALIZED, ERROR_LISTENER, callBacks,
                   backendSessions, aborted, fatalReturned, iters, op,
                   libs>>
    /\ UNCHANGED <<calc, chips>>

(***************************************************************************)
(* impl Drop for LMSensors (lib.rs:509-529).                               *)
(***************************************************************************)
\* Mutation: an instance may be dropped while a Chip borrows it.
NoBorrow_unchecked(t) == TRUE

\* `fn new_chip(&self, ..) -> Result<Chip<'_>>`, `unsafe fn new_raw_chip(&'_
\* self, ..) -> Chip<'_>` (lib.rs:374-384): a Chip borrows the instance, which
\* cannot be moved or dropped while the Chip exists.
NoBorrow(t) ==
    \A c \in 1..MaxParsed : ~(chips[c].owner = t /\ chips[c].state = "owned")

\* The owner drops its newest instance.  The iterators and handles borrowed
\* from it have ended before (they borrow the instance).
DropLibrary(t) ==
    /\ Ready(t)
    /\ Len(libs[t]) > 0
    /\ NoBorrow(t)
    /\ loc' = [loc EXCEPT ![t].reporter = <<libs[t][Len(libs[t])]>>]
    /\ libs' = [libs EXCEPT ![t] = SubSeq(@, 1, Len(@) - 1)]
    /\ iters' = [i \in SiblingIds |-> IF iters[i].owner = t THEN NoIter ELSE iters[i]]
    /\ op' = [op EXCEPT ![t] = "drop"]
    /\ pc' = [pc EXCEPT ![t] = "drop_lock"]
    /\ UNCHANGED <<lockHolder, poisoned, INITIALIZED, ERROR_LISTENER, callBacks,
                   backendSessions, listenerState, aborted, fatalReturned>>
    /\ UNCHANGED <<calc, chips>>

\* lib.rs:512-523 `api_access_lock().lock().map(|_guard| ..).unwrap_or(null)`:
\* on a poisoned mutex the closure does not run, the PoisonError (and its
\* guard) is dropped by unwrap_or and the listener pointer is null, so drop()
\* does nothing at all.
DropLock(t) ==
    /\ ~aborted
    /\ pc[t] = "drop_lock"
    /\ CanLock(t)
    /\ IF poisoned
       THEN /\ loc' = [loc EXCEPT ![t].reporter = <<>>, ![t].sawPoison = TRUE]
            /\ pc' = [pc EXCEPT ![t] = "done"]
            /\ UNCHANGED lockHolder
       ELSE /\ lockHolder' = t
            /\ pc' = [pc EXCEPT ![t] = "sensors_cleanup"]
            /\ UNCHANGED loc
    /\ UNCHANGED <<poisoned, INITIALIZED, ERROR_LISTENER, callBacks,
                   backendSessions, listenerState, aborted, fatalReturned,
                   iters, op, libs>>
    /\ UNCHANGED <<calc, chips>>

\* lib.rs:515: sensors_cleanup() returns.
SensorsCleanupReturns(t) ==
    /\ ~aborted
    /\ pc[t] = "sensors_cleanup"
    /\ backendSessions' = backendSessions - 1
    /\ loc' = [loc EXCEPT ![t].called = TRUE]
    /\ pc' = [pc EXCEPT ![t] = "drop_restore"]
    /\ UNCHANGED <<lockHolder, poisoned, INITIALIZED, ERROR_LISTENER, callBacks,
                   listenerState, aborted, fatalReturned, iters, op, libs>>
    /\ UNCHANGED <<calc, chips>>

\* lib.rs:517-521: error_reporter.restore() (which hands back the installed
\* listener), INITIALIZED.store(false); the guard dies at the end of the
\* closure.
DropRestore(t) ==
    /\ ~aborted
    /\ pc[t] = "drop_restore"
    /\ Reporter_restore(loc[t].reporter[1])
    /\ INITIALIZED' = FALSE
    /\ loc' = [loc EXCEPT ![t].error_listener = ERROR_LISTENER,
                          ![t].reporter = <<>>]
    /\ lockHolder' = NoThread
    /\ pc' = [pc EXCEPT ![t] = "drop_free"]
    /\ UNCHANGED <<poisoned, backendSessions, listenerState, aborted,
                   fatalReturned, iters, op, libs>>
    /\ UNCHANGED <<calc, chips>>

\* lib.rs:525-528: free the listener if the pointer is not null.
DropFree(t) ==
    /\ ~aborted
    /\ pc[t] = "drop_free"
    /\ listenerState' = FreeListener(listenerState, loc[t].error_listener)
    /\ pc' = [pc EXCEPT ![t] = "done"]
    /\ UNCHANGED <<lockHolder, poisoned, INITIALIZED, ERROR_LISTENER, callBacks,
                   backendSessions, aborted, fatalReturned, iters, op,
                   loc, libs>>
    /\ UNCHANGED <<calc, chips>>

(***************************************************************************)
(* The operations that make one backend call under the lock: Chip::new     *)
(* (chip.rs:29-52), ChipRef::do_chip_sets (chip.rs:252-262),               *)
(* ChipRef::raw_name (chip.rs:273-303), FeatureRef::raw_label              *)
(* (feature.rs:94-111), FeatureRef::sub_feature_by_raw_kind                *)
(* (feature.rs:128-142), SubFeatureRef::raw_value / set_raw_value          *)
(* (sub_feature.rs:115-146) and Bus::raw_name (bus.rs:47-60).              *)
(***************************************************************************)
\* A thread starts one of the operations `ops`; an operation on a handle needs
\* an instance the thread owns.
StartOp(t, ops) ==
    /\ Ready(t)
    /\ \E o \in ops :
        /\ o \in HandleOps => Len(libs[t]) > 0
        /\ op' = [op EXCEPT ![t] = o]
    /\ pc' = [pc EXCEPT ![t] = "op_lock"]
    /\ UNCHANGED <<lockHolder, poisoned, INITIALIZED, ERROR_LISTENER, callBacks,
                   backendSessions, listenerState, aborted, fatalReturned,
                   iters, loc, libs>>
    /\ UNCHANGED <<calc, chips>>

\* `api_access_lock().lock().map(|_guard| ..)?`: a poisoned mutex makes the
\* operation return the Poisoned error, which owns the guard.
OpLock(t) ==
    /\ ~aborted
    /\ pc[t] = "op_lock"
    /\ CanLock(t)
    /\ lockHolder' = t
    /\ IF poisoned
       THEN /\ loc' = [loc EXCEPT ![t].res = PoisonedLMSensors,
                                  ![t].sawPoison = TRUE]
            /\ pc' = [pc EXCEPT ![t] = "done"]
       ELSE /\ pc' = [pc EXCEPT ![t] = "backend_call"]
            /\ UNCHANGED loc
    /\ UNCHANGED <<poisoned, INITIALIZED, ERROR_LISTENER, callBacks,
                   backendSessions, listenerState, aborted, fatalReturned,
                   iters, op, libs>>
    /\ UNCHANGED <<calc, chips>>

\* Mutation: a negative status counts as success.
StatusIsOk_lenient(r) == r <= 0

\* `if r == 0` of the status operations.
StatusIsOk(r) == r = 0

\* Mutation: a null pointer is taken for a string.
PointerResult_unchecked(o, p) == Ok

\* What a pointer operation returns for the pointer p the backend returned:
\* raw_label reports a null as InvalidInput, the two lookups as NotFound.
PointerResult(o, p) ==
    IF p # 0 THEN Ok
    ELSE IF o = "raw_label" THEN from_io(OperationName(o), "InvalidInput")
    ELSE from_io(OperationName(o), "NotFound")

\* What the backend may return from the first call of operation o.
BackendReturns(o) ==
    IF o \in PointerOps THEN 0..1
    ELSE IF o = "raw_name" THEN (0 - MaxStatus)..MaxNameLen
    ELSE BackendStatuses

\* Mutation: the record is wrapped whatever the status.
ParsedChip_unchecked(t, r) == op[t] = "new_chip" /\ loc[t].chip # 0

\* chip.rs:43-48 `if r == 0 { Ok(Self { raw: result.assume_init(), .. }) }`:
\* Chip::new wraps the record the parse has filled (an operation started by
\* StartOp follows no record).
ParsedChip(t, r) == op[t] = "new_chip" /\ loc[t].chip # 0 /\ StatusIsOk(r)

\* The backend call returns.  A status or pointer operation leaves the
\* closure (the guard dies) and tests the result; raw_name with a
\* non-negative length allocates length + 1 bytes and calls the backend again
\* under the same guard.
BackendCallReturns(t) ==
    /\ ~aborted
    /\ pc[t] = "backend_call"
    /\ \E r \in BackendReturns(op[t]) :
        /\ IF op[t] = "raw_name" /\ r >= 0
           THEN /\ loc' = [loc EXCEPT ![t].ret = r, ![t].buffer = r + 1]
                /\ pc' = [pc EXCEPT ![t] = "backend_call2"]
                /\ UNCHANGED lockHolder
           ELSE /\ lockHolder' = NoThread
                /\ IF op[t] \in PointerOps
                   THEN /\ loc' = [loc EXCEPT ![t].ret = r, ![t].called = TRUE,
                                              ![t].res = PointerResult(op[t], r)]
                        /\ pc' = [pc EXCEPT ![t] = "done"]
                   ELSE IF op[t] # "raw_name" /\ StatusIsOk(r)
                   THEN /\ loc' = [loc EXCEPT ![t].ret = r, ![t].called = TRUE,
                                              ![t].res = Ok]
                        /\ pc' = [pc EXCEPT ![t] = "done"]
                   ELSE /\ loc' = [loc EXCEPT ![t].ret = r, ![t].called = TRUE]
                        /\ pc' = [pc EXCEPT ![t] = "sensors_strerror"]
        /\ chips' = IF ParsedChip(t, r)
                    THEN [chips EXCEPT ![loc[t].chip] =
                            [state |-> "owned", owner |-> t, wrapped |-> FALSE,
                             frees |-> 0]]
                    ELSE chips
    /\ UNCHANGED <<poisoned, INITIALIZED, ERROR_LISTENER, callBacks,
                   backendSessions, listenerState, aborted, fatalReturned,
                   iters, op, libs>>
    /\ UNCHANGED calc

\* Mutation: a length equal to the size of the buffer passes.
RawNameResult_lenient(r, bufferLen, written) ==
    IF r > bufferLen
    THEN from_io("sensors_snprintf_chip_name()", "InvalidData")
    ELSE Ok

\* chip.rs:290-302, for a second call that returned r >= 0: a length that
\* does not fit is an error; else the buffer is cut to r bytes and made a
\* CString, which fails on a NUL among them.
RawNameResult(r, bufferLen, written) ==
    IF r >= bufferLen
    THEN from_io("sensors_snprintf_chip_name()", "InvalidData")
    ELSE IF written < r
    THEN [tag |-> "UnexpectedNul", operation |-> "", number |-> 0, kind |-> ""]
    ELSE Ok

\* The second sensors_snprintf_chip_name() returns; the guard dies.
BackendCall2Returns(t) ==
    /\ ~aborted
    /\ pc[t] = "backend_call2"
    /\ \E r \in (0 - MaxStatus)..(MaxNameLen + 1) :
        IF r < 0
        THEN /\ loc' = [loc EXCEPT ![t].ret = r, ![t].called = TRUE]
             /\ pc' = [pc EXCEPT ![t] = "sensors_strerror"]
        ELSE \* the backend writes the name, at most buffer - 1 characters of it
             LET written == IF r < loc[t].buffer THEN r ELSE loc[t].buffer - 1
             IN /\ loc' = [loc EXCEPT ![t].ret = r, ![t].called = TRUE,
                                      ![t].written = written,
                                      ![t].res = RawNameResult(r, loc[t].buffer, written)]
             /\ pc' = [pc EXCEPT ![t] = "done"]
    /\ lockHolder' = NoThread
    /\ UNCHANGED <<poisoned, INITIALIZED, ERROR_LISTENER, callBacks,
                   backendSessions, listenerState, aborted, fatalReturned,
                   iters, op, libs>>
    /\ UNCHANGED <<calc, chips>>

(***************************************************************************)
(* The iterators: LMSensors::chip_iter (lib.rs:464-469),                   *)
(* ChipRef::feature_iter (chip.rs:211-216), FeatureRef::sub_feature_iter   *)
(* (feature.rs:75-80) and their next() (chip.rs:354-370,                   *)
(* feature.rs:244-261, sub_feature.rs:194-216).                            *)
(***************************************************************************)
\* Mutation: the cursor starts past the first entry.
InitialCursor_skip == 0 + 1

\* `state: 0` of the three constructors.
InitialCursor == 0

\* The tables of a chip's features or a feature's sub-features.
EntryTables == {[k \in 1..n |-> "isa"] : n \in 0..MaxChips}

\* A thread that owns an instance makes an iterator: over the detected chips,
\* with or without a match pattern, or over the entries of a chip or feature.
NewIter(t) ==
    /\ Ready(t)
    /\ Len(libs[t]) > 0
    /\ \E i \in IterIds, kind \in IterKinds, pattern \in Patterns,
          table \in ChipTables :
        /\ iters[i] = NoIter
        /\ \A j \in IterIds : j < i => iters[j] # NoIter
        /\ kind # "chip" => (pattern = NoPattern /\ table \in EntryTables)
        /\ iters' = [iters EXCEPT ![i] =
                        [owner |-> t, kind |-> kind, state |-> InitialCursor,
                         match_pattern |-> pattern,
                         entries |-> table,
                         yielded |-> <<>>, ended |-> FALSE, restarted |-> FALSE]]
    /\ UNCHANGED <<lockHolder, poisoned, INITIALIZED, ERROR_LISTENER, callBacks,
                   backendSessions, listenerState, aborted, fatalReturned,
                   pc, op, loc, libs>>
    /\ UNCHANGED <<calc, chips>>

\* next() is called on an iterator of the thread.
IterNext(t) ==
    /\ Ready(t)
    /\ \E i \in SiblingIds :
        /\ iters[i].owner = t
        /\ loc' = [loc EXCEPT ![t].iter = i, ![t].wasEnded = iters[i].ended]
    /\ op' = [op EXCEPT ![t] = "next"]
    /\ pc' = [pc EXCEPT ![t] = "iter_lock"]
    /\ UNCHANGED <<lockHolder, poisoned, INITIALIZED, ERROR_LISTENER, callBacks,
                   backendSessions, listenerState, aborted, fatalReturned,
                   iters, libs>>
    /\ UNCHANGED <<calc, chips>>

\* `.ok()?` of next(): a PoisonError is dropped (with its guard) and next()
\* returns None.
IterPoisonedResult == None

\* `api_access_lock().lock()` of next().
IterLock(t) ==
    /\ ~aborted
    /\ pc[t] = "iter_lock"
    /\ CanLock(t)
    /\ IF poisoned
       THEN /\ loc' = [loc EXCEPT ![t].res = IterPoisonedResult,
                                  ![t].sawPoison = TRUE]
            /\ pc' = [pc EXCEPT ![t] = "done"]
            /\ UNCHANGED lockHolder
       ELSE /\ lockHolder' = t
            /\ pc' = [pc EXCEPT ![t] = "iter_call"]
            /\ UNCHANGED loc
    /\ UNCHANGED <<poisoned, INITIALIZED, ERROR_LISTENER, callBacks,
                   backendSessions, listenerState, aborted, fatalReturned,
                   iters, op, libs>>
    /\ UNCHANGED <<calc, chips>>

\* The backend's matching of a table entry against a pattern.
Matches(entry, pattern) == pattern = NoPattern \/ entry = pattern

\* The positions at or after `cursor` (0-based) whose entry matches.
MatchesFrom(table, pattern, cursor) ==
    {k \in 1..Len(table) : k > cursor /\ Matches(table[k], pattern)}

Min(S) == CHOOSE x \in S : \A y \in S : x <= y

\* sensors_get_detected_chips / sensors_get_features /
\* sensors_get_all_subfeatures: the first matching entry at or after the
\* cursor, the cursor moved past it; null (0) at the end of the table, the
\* cursor left at the end.
BackendEnumerate(table, pattern, cursor) ==
    LET found == MatchesFrom(table, pattern, cursor)
    IN IF found = {}
       THEN [item |-> 0, cursor |-> IF cursor < Len(table) THEN Len(table) ELSE cursor]
       ELSE [item |-> Min(found), cursor |-> Min(found)]

\* Mutation: every iterator uses the cursor of the first one.
IterCursor_shared(it) == iters[1].state

\* What next() passes to the backend as the cursor: `&mut self.state`.
IterCursor(it) == it.state

\* Mutation: the pattern is passed when none was given and dropped when one was.
IterPattern_swapped(it) ==
    IF it.match_pattern = NoPattern THEN "isa" ELSE NoPattern

\* chip.rs:358: what next() passes to the backend as the pattern, null for
\* an iterator without one.
IterPattern(it) == it.match_pattern

\* The backend call of next() returns; the guard dies; a null pointer is None.
IterReturns(t) ==
    /\ ~aborted
    /\ pc[t] = "iter_call"
    /\ LET i == loc[t].iter
           it == iters[i]
           r == BackendEnumerate(it.entries, IterPattern(it), IterCursor(it))
       IN /\ iters' = [iters EXCEPT ![i] =
                          [it EXCEPT !.state = r.cursor,
                                     !.yielded = IF r.item # 0 THEN Append(@, r.item) ELSE @,
                                     !.ended = (@ \/ r.item = 0),
                                     !.restarted = (@ \/ (it.ended /\ r.item # 0))]]
          /\ loc' = [loc EXCEPT ![t].called = TRUE,
                                ![t].res = IF r.item # 0 THEN Some(r.item) ELSE None]
    /\ lockHolder' = NoThread
    /\ pc' = [pc EXCEPT ![t] = "done"]
    /\ UNCHANGED <<poisoned, INITIALIZED, ERROR_LISTENER, callBacks,
                   backendSessions, listenerState, aborted, fatalReturned,
                   op, libs>>
    /\ UNCHANGED <<calc, chips>>

(***************************************************************************)
(* The specifications.                                                     *)
(***************************************************************************)
\* The steps every scenario has: initialization, drop, the callbacks, and the
\* caller taking a result.
Lifecycle(t) ==
    \/ Initialize(t)
    \/ NewLock(t)
    \/ NewCheck(t)
    \/ BackendParseError(t)
    \/ ConfigListenerReturns(t)
    \/ BackendFatalError(t)
    \/ FatalListenerReturns(t)
    \/ ListenerPanics(t)
    \/ SensorsInitReturns(t)
    \/ NewFinish(t)
    \/ SensorsStrerrorReturns(t)
    \/ DropLibrary(t)
    \/ DropLock(t)
    \/ SensorsCleanupReturns(t)
    \/ DropRestore(t)
    \/ DropFree(t)
    \/ Return(t)

\* The operations that make one backend call under the lock.
Operations(t, ops) ==
    \/ StartOp(t, ops)
    \/ OpLock(t)
    \/ BackendCallReturns(t)
    \/ BackendCall2Returns(t)

\* The iterators.
Iterators(t) ==
    \/ NewIter(t)
    \/ IterNext(t)
    \/ IterLock(t)
    \/ IterReturns(t)

\* A thread that owns no instance and uses a Bus value it was given: its
\* backend call may raise the fatal callback, and the listener may panic.
BusUser(t) ==
    \/ StartOp(t, FreeOps)
    \/ OpLock(t)
    \/ BackendCallReturns(t)
    \/ BackendFatalError(t)
    \/ FatalListenerReturns(t)
    \/ ListenerPanics(t)
    \/ Return(t)

\* Any thread initializes and drops instances and reads bus names.
Next ==
    \E t \in Threads :
        \/ Lifecycle(t)
        \/ StartOp(t, FreeOps)
        \/ OpLock(t)
        \/ BackendCallReturns(t)

Spec == Init /\ [][Next]_vars

\* Thread 1 owns the instance and runs every operation and iterator on it;
\* thread 2 reads bus names.
NextOps ==
    \/ Lifecycle(1)
    \/ Operations(1, HandleOps \cup FreeOps)
    \/ Iterators(1)
    \/ BusUser(2)

SpecOps == Init /\ [][NextOps]_vars

\* LMSensors::chip_iter called twice on one instance: the owner of the
\* instance makes a second, independent chip iterator over the same table of
\* detected chips.  chip::Iter is not Send, so safe code advances it on the
\* thread of its instance; either thread u may advance it here, which covers
\* every interleaving of the two sequences of next() calls.
NewSiblingIter(t, u) ==
    /\ Ready(t)
    /\ Len(libs[t]) > 0
    /\ \E i \in SiblingIds, pattern \in Patterns, table \in ChipTables :
        /\ iters[i] = NoIter
        /\ \A j \in SiblingIds : j < i => iters[j] # NoIter
        /\ \A j \in SiblingIds : iters[j] # NoIter => iters[j].entries = table
        /\ iters' = [iters EXCEPT ![i] =
                        [owner |-> u, kind |-> "chip", state |-> InitialCursor,
                         match_pattern |-> pattern,
                         entries |-> table,
                         yielded |-> <<>>, ended |-> FALSE, restarted |-> FALSE]]
    /\ UNCHANGED <<lockHolder, poisoned, INITIALIZED, ERROR_LISTENER, callBacks,
                   backendSessions, listenerState, aborted, fatalReturned,
                   pc, op, loc, libs>>
    /\ UNCHANGED <<calc, chips>>

\* Thread 1 initializes an instance and makes two chip iterators of it; the
\* two threads advance them in any interleaving.
NextSiblings ==
    \/ Initialize(1)
    \/ NewLock(1)
    \/ NewCheck(1)
    \/ SensorsInitReturns(1)
    \/ NewFinish(1)
    \/ SensorsStrerrorReturns(1)
    \/ \E u \in Threads : NewSiblingIter(1, u)
    \/ \E t \in Threads :
        \/ IterNext(t)
        \/ IterLock(t)
        \/ IterReturns(t)
        \/ Return(t)

SpecSiblings == Init /\ [][NextSiblings]_vars

(***************************************************************************)
(* Chip equality (chip.rs:21-26, 176-186, 327-334).                        *)
(***************************************************************************)
MaxPtr == 2

\* Addresses of string buffers; 0 is the null pointer.
Pointers == 0..MaxPtr
ChipTexts == {"a", "b"}

\* The string buffers in memory: the text at each non-null address.
Memories == [1..MaxPtr -> ChipTexts]

\* A chip handle: an owned Chip holds the sensors_chip_name record, a ChipRef
\* points to one; the record holds the bus, the address and the pointers to
\* the prefix and path strings.
ChipHandles ==
    [owned : BOOLEAN, bus : BusTypes, addr : 0..1, prefix : Pointers, path : Pointers]

\* ChipRef::raw_prefix / raw_path: None for a null pointer, else the string
\* the pointer leads to.
RawString(mem, ptr) == IF ptr = 0 THEN <<>> ELSE <<mem[ptr]>>

\* impl PartialEq<ChipRef> for ChipRef (chip.rs:327-334).
ChipRef_eq(mem, a, b) ==
    /\ a.addr = b.addr
    /\ a.bus = b.bus
    /\ RawString(mem, a.prefix) = RawString(mem, b.prefix)
    /\ RawString(mem, a.path) = RawString(mem, b.path)

\* #[derive(PartialEq)] on Chip (chip.rs:22-26): the derived comparison of the
\* `raw` records compares their fields, the two `*mut c_char` by address.
Chip_eq(a, b) ==
    /\ a.prefix = b.prefix
    /\ a.bus = b.bus
    /\ a.addr = b.addr
    /\ a.path = b.path

\* `a == b` for two chip handles: the derived comparison for two owned chips,
\* else the comparison of ChipRef after as_ref() (chip.rs:176-186).
chip_eq(mem, a, b) ==
    IF a.owned /\ b.owned THEN Chip_eq(a, b) ELSE ChipRef_eq(mem, a, b)

\* Two chip handles are compared.
ChipEq ==
    /\ calc = NoCalc
    /\ \E mem \in Memories, a, b \in ChipHandles :
        calc' = [fn |-> "chip_eq", mem |-> mem, a |-> a, b |-> b,
                 out |-> chip_eq(mem, a, b)]
    /\ UNCHANGED library

(***************************************************************************)
(* Doubles and TemperatureSensorKind::from_raw (value.rs:1206-1255).       *)
(***************************************************************************)
MaxSmall == 8

\* `int_value > 1000` (value.rs:1241).
ThermistorThreshold == 1000

\* Discriminants of TemperatureSensorKind: Disabled = 0 .. IntelPECI = 6.
Thermistor == 4
IntelPECI == 6
TemperatureSensorKinds == 0..IntelPECI

\* Finite doubles are counted in hundredths.  The integers whose
\* neighbourhood is explored: the small ones and those around the threshold.
TestIntegers ==
    ((0 - 2)..MaxSmall) \cup ((ThermistorThreshold - 1)..(ThermistorThreshold + 1))

TestHundredths ==
    {n * 100 + d : n \in TestIntegers, d \in {0 - 51, 0 - 50, 0 - 49, 0, 49, 50, 51}}

\* An f64: NaN, an infinity, negative zero, a finite value of moderate size
\* (h hundredths), or a finite value of magnitude 2^63 or more (h its sign).
Doubles ==
    {[cls |-> "nan", h |-> 0], [cls |-> "negzero", h |-> 0]}
    \cup {[cls |-> c, h |-> sgn] : c \in {"inf", "huge"}, sgn \in {0 - 1, 1}}
    \cup {[cls |-> "fin", h |-> h] : h \in TestHundredths}

Double(h) == [cls |-> "fin", h |-> h]

\* f64::round: to the nearest integer, halves away from zero.
Round(h) ==
    IF h >= 0 THEN (h + 50) \div 100 ELSE 0 - (((0 - h) + 50) \div 100)

\* The integer nearest to a finite double of moderate size.
Nearest(x) == IF x.cls = "negzero" THEN 0 ELSE Round(x.h)

\* What an out-of-range conversion may produce: one integer of each class the
\* code that follows tells apart.
UnspecifiedInts ==
    {0 - 1} \cup (0..(IntelPECI + 1)) \cup {ThermistorThreshold + 1}

\* `value.round().to_int_unchecked::<i64>()` (value.rs:1239) of a finite
\* double: the rounded value when it fits in an i64; for a magnitude of 2^63
\* or more the conversion is undefined behaviour and may produce any integer.
to_int_unchecked(x) ==
    IF x.cls = "huge" THEN UnspecifiedInts ELSE {Nearest(x)}

\* Mutation: the threshold itself already counts as too large.
IsAboveThreshold_inclusive(n) == n >= ThermistorThreshold

\* value.rs:1242 `int_value > 1000`.
IsAboveThreshold(n) == n > ThermistorThreshold

\* Self::try_from(int_value as c_int).ok(): the variant with that discriminant.
TemperatureSensorKind_try_from(n) ==
    IF n \in TemperatureSensorKinds THEN <<n>> ELSE <<>>

\* value.rs:1240-1247: the tests on int_value.  None is <<>>, Some(k) is <<k>>.
TemperatureSensorKind_from_int(int_value) ==
    IF int_value < 0 THEN <<>>
    ELSE IF IsAboveThreshold(int_value) THEN <<Thermistor>>
    ELSE TemperatureSensorKind_try_from(int_value)

\* TemperatureSensorKind::from_raw: the results the call may return.
TemperatureSensorKind_from_raw(x) ==
    IF x.cls = "nan" THEN {<<>>}
    ELSE IF x.cls = "inf" THEN {IF x.h > 0 THEN <<Thermistor>> ELSE <<>>}
    ELSE {TemperatureSensorKind_from_int(n) : n \in to_int_unchecked(x)}

\* TemperatureSensorKind::from_raw is called.
TemperatureSensorKindFromRaw ==
    /\ calc = NoCalc
    /\ \E x \in Doubles : \E r \in TemperatureSensorKind_from_raw(x) :
        calc' = [fn |-> "TemperatureSensorKind::from_raw", x |-> x, out |-> r]
    /\ UNCHANGED library

(***************************************************************************)
(* Value (value.rs:19-695): a variant per sub-feature kind.                *)
(***************************************************************************)
\* enum Value (value.rs:19-117): each variant with the type it carries.
ValueVariants ==
    { <<"VoltageInput", "f64">>, <<"VoltageMinimum", "f64">>, <<"VoltageMaximum", "f64">>,
      <<"VoltageLCritical", "f64">>, <<"VoltageCritical", "f64">>, <<"VoltageAverage", "f64">>,
      <<"VoltageLowest", "f64">>, <<"VoltageHighest", "f64">>, <<"VoltageAlarm", "bool">>,
      <<"VoltageMinimumAlarm", "bool">>, <<"VoltageMaximumAlarm", "bool">>,
      <<"VoltageBeep", "bool">>, <<"VoltageLCriticalAlarm", "bool">>,
      <<"VoltageCriticalAlarm", "bool">>, <<"FanInput", "f64">>, <<"FanMinimum", "f64">>,
      <<"FanMaximum", "f64">>, <<"FanAlarm", "bool">>, <<"FanFault", "bool">>,
      <<"FanDivisor", "f64">>, <<"FanBeep", "bool">>, <<"FanPulses", "f64">>,
      <<"FanMinimumAlarm", "bool">>, <<"FanMaximumAlarm", "bool">>, <<"TemperatureInput", "f64">>,
      <<"TemperatureMaximum", "f64">>, <<"TemperatureMaximumHysteresis", "f64">>,
      <<"TemperatureMinimum", "f64">>, <<"TemperatureCritical", "f64">>,
      <<"TemperatureCriticalHysteresis", "f64">>, <<"TemperatureLCritical", "f64">>,
      <<"TemperatureEmergency", "f64">>, <<"TemperatureEmergencyHysteresis", "f64">>,
      <<"TemperatureLowest", "f64">>, <<"TemperatureHighest", "f64">>,
      <<"TemperatureMinimumHysteresis", "f64">>, <<"TemperatureLCriticalHysteresis", "f64">>,
      <<"TemperatureAlarm", "bool">>, <<"TemperatureMaximumAlarm", "bool">>,
      <<"TemperatureMinimumAlarm", "bool">>, <<"TemperatureCriticalAlarm", "bool">>,
      <<"TemperatureFault", "bool">>, <<"TemperatureType", "TemperatureSensorKind">>,
      <<"TemperatureOffset", "f64">>, <<"TemperatureBeep", "bool">>,
      <<"TemperatureEmergencyAlarm", "bool">>, <<"TemperatureLCriticalAlarm", "bool">>,
      <<"PowerAverage", "f64">>, <<"PowerAverageHighest", "f64">>, <<"PowerAverageLowest", "f64">>,
      <<"PowerInput", "f64">>, <<"PowerInputHighest", "f64">>, <<"PowerInputLowest", "f64">>,
      <<"PowerCap", "f64">>, <<"PowerCapHysteresis", "f64">>, <<"PowerMaximum", "f64">>,
      <<"PowerCritical", "f64">>, <<"PowerMinimum", "f64">>, <<"PowerLCritical", "f64">>,
      <<"PowerAverageInterval", "f64">>, <<"PowerAlarm", "bool">>, <<"PowerCapAlarm", "bool">>,
      <<"PowerMaximumAlarm", "bool">>, <<"PowerCriticalAlarm", "bool">>,
      <<"PowerMinimumAlarm", "bool">>, <<"PowerLCriticalAlarm", "bool">>, <<"EnergyInput", "f64">>,
      <<"CurrentInput", "f64">>, <<"CurrentMinimum", "f64">>, <<"CurrentMaximum", "f64">>,
      <<"CurrentLCritical", "f64">>, <<"CurrentCritical", "f64">>, <<"CurrentAverage", "f64">>,
      <<"CurrentLowest", "f64">>, <<"CurrentHighest", "f64">>, <<"CurrentAlarm", "bool">>,
      <<"CurrentMinimumAlarm", "bool">>, <<"CurrentMaximumAlarm", "bool">>,
      <<"CurrentBeep", "bool">>, <<"CurrentLCriticalAlarm", "bool">>,
      <<"CurrentCriticalAlarm", "bool">>, <<"HumidityInput", "f64">>, <<"VoltageID", "f64">>,
      <<"IntrusionAlarm", "bool">>, <<"IntrusionBeep", "bool">>, <<"BeepEnable", "bool">>,
      <<"Unknown", "Kind, f64">> }

\* The arms of the match in Value::new (value.rs:125-226):
\* <<kind, variant built, expression stored>>.
ValueNewArms ==
    { <<"VoltageInput", "VoltageInput", "value">>, <<"VoltageMinimum", "VoltageMinimum", "value">>,
      <<"VoltageMaximum", "VoltageMaximum", "value">>,
      <<"VoltageLCritical", "VoltageLCritical", "value">>,
      <<"VoltageCritical", "VoltageCritical", "value">>,
      <<"VoltageAverage", "VoltageAverage", "value">>,
      <<"VoltageLowest", "VoltageLowest", "value">>,
      <<"VoltageHighest", "VoltageHighest", "value">>,
      <<"VoltageAlarm", "VoltageAlarm", "value != 0.0">>,
      <<"VoltageMinimumAlarm", "VoltageMinimumAlarm", "value != 0.0">>,
      <<"VoltageMaximumAlarm", "VoltageMaximumAlarm", "value != 0.0">>,
      <<"VoltageBeep", "VoltageBeep", "value != 0.0">>,
      <<"VoltageLCriticalAlarm", "VoltageLCriticalAlarm", "value != 0.0">>,
      <<"VoltageCriticalAlarm", "VoltageCriticalAlarm", "value != 0.0">>,
      <<"FanInput", "FanInput", "value">>, <<"FanMinimum", "FanMinimum", "value">>,
      <<"FanMaximum", "FanMaximum", "value">>, <<"FanAlarm", "FanAlarm", "value != 0.0">>,
      <<"FanFault", "FanFault", "value != 0.0">>, <<"FanDivisor", "FanDivisor", "value">>,
      <<"FanBeep", "FanBeep", "value != 0.0">>, <<"FanPulses", "FanPulses", "value">>,
      <<"FanMinimumAlarm", "FanMinimumAlarm", "value != 0.0">>,
      <<"FanMaximumAlarm", "FanMaximumAlarm", "value != 0.0">>,
      <<"TemperatureInput", "TemperatureInput", "value">>,
      <<"TemperatureMaximum", "TemperatureMaximum", "value">>,
      <<"TemperatureMaximumHysteresis", "TemperatureMaximumHysteresis", "value">>,
      <<"TemperatureMinimum", "TemperatureMinimum", "value">>,
      <<"TemperatureCritical", "TemperatureCritical", "value">>,
      <<"TemperatureCriticalHysteresis", "TemperatureCriticalHysteresis", "value">>,
      <<"TemperatureLCritical", "TemperatureLCritical", "value">>,
      <<"TemperatureEmergency", "TemperatureEmergency", "value">>,
      <<"TemperatureEmergencyHysteresis", "TemperatureEmergencyHysteresis", "value">>,
      <<"TemperatureLowest", "TemperatureLowest", "value">>,
      <<"TemperatureHighest", "TemperatureHighest", "value">>,
      <<"TemperatureMinimumHysteresis", "TemperatureMinimumHysteresis", "value">>,
      <<"TemperatureLCriticalHysteresis", "TemperatureLCriticalHysteresis", "value">>,
      <<"TemperatureAlarm", "TemperatureAlarm", "value != 0.0">>,
      <<"TemperatureMaximumAlarm", "TemperatureMaximumAlarm", "value != 0.0">>,
      <<"TemperatureMinimumAlarm", "TemperatureMinimumAlarm", "value != 0.0">>,
      <<"TemperatureCriticalAlarm", "TemperatureCriticalAlarm", "value != 0.0">>,
      <<"TemperatureFault", "TemperatureFault", "value != 0.0">>,
      <<"TemperatureType", "TemperatureType", "from_raw(value)?">>,
      <<"TemperatureOffset", "TemperatureOffset", "value">>,
      <<"TemperatureBeep", "TemperatureBeep", "value != 0.0">>,
      <<"TemperatureEmergencyAlarm", "TemperatureEmergencyAlarm", "value != 0.0">>,
      <<"TemperatureLCriticalAlarm", "TemperatureLCriticalAlarm", "value != 0.0">>,
      <<"PowerAverage", "PowerAverage", "value">>,
      <<"PowerAverageHighest", "PowerAverageHighest", "value">>,
      <<"PowerAverageLowest", "PowerAverageLowest", "value">>,
      <<"PowerInput", "PowerInput", "value">>,
      <<"PowerInputHighest", "PowerInputHighest", "value">>,
      <<"PowerInputLowest", "PowerInputLowest", "value">>, <<"PowerCap", "PowerCap", "value">>,
      <<"PowerCapHysteresis", "PowerCapHysteresis", "value">>,
      <<"PowerMaximum", "PowerMaximum", "value">>, <<"PowerCritical", "PowerCritical", "value">>,
      <<"PowerMinimum", "PowerMinimum", "value">>, <<"PowerLCritical", "PowerLCritical", "value">>,
      <<"PowerAverageInterval", "PowerAverageInterval", "value">>,
      <<"PowerAlarm", "PowerAlarm", "value != 0.0">>,
      <<"PowerCapAlarm", "PowerCapAlarm", "value != 0.0">>,
      <<"PowerMaximumAlarm", "PowerMaximumAlarm", "value != 0.0">>,
      <<"PowerCriticalAlarm", "PowerCriticalAlarm", "value != 0.0">>,
      <<"PowerMinimumAlarm", "PowerMinimumAlarm", "value != 0.0">>,
      <<"PowerLCriticalAlarm", "PowerLCriticalAlarm", "value != 0.0">>,
      <<"EnergyInput", "EnergyInput", "value">>, <<"CurrentInput", "CurrentInput", "value">>,
      <<"CurrentMinimum", "CurrentMinimum", "value">>,
      <<"CurrentMaximum", "CurrentMaximum", "value">>,
      <<"CurrentLCritical", "CurrentLCritical", "value">>,
      <<"CurrentCritical", "CurrentCritical", "value">>,
      <<"CurrentAverage", "CurrentAverage", "value">>,
      <<"CurrentLowest", "CurrentLowest", "value">>,
      <<"CurrentHighest", "CurrentHighest", "value">>,
      <<"CurrentAlarm", "CurrentAlarm", "value != 0.0">>,
      <<"CurrentMinimumAlarm", "CurrentMinimumAlarm", "value != 0.0">>,
      <<"CurrentMaximumAlarm", "CurrentMaximumAlarm", "value != 0.0">>,
      <<"CurrentBeep", "CurrentBeep", "value != 0.0">>,
      <<"CurrentLCriticalAlarm", "CurrentLCriticalAlarm", "value != 0.0">>,
      <<"CurrentCriticalAlarm", "CurrentCriticalAlarm", "value != 0.0">>,
      <<"HumidityInput", "HumidityInput", "value">>, <<"VoltageID", "VoltageID", "value">>,
      <<"IntrusionAlarm", "IntrusionAlarm", "value != 0.0">>,
      <<"IntrusionBeep", "IntrusionBeep", "value != 0.0">>,
      <<"BeepEnable", "BeepEnable", "value != 0.0">>, <<"Unknown", "Unknown", "kind, value">> }

\* The arms of the match in Value::kind (value.rs:344-442): <<variant, kind>>.
ValueKindArms ==
    { <<"VoltageInput", "VoltageInput">>, <<"VoltageMinimum", "VoltageMinimum">>,
      <<"VoltageMaximum", "VoltageMaximum">>, <<"VoltageLCritical", "VoltageLCritical">>,
      <<"VoltageCritical", "VoltageCritical">>, <<"VoltageAverage", "VoltageAverage">>,
      <<"VoltageLowest", "VoltageLowest">>, <<"VoltageHighest", "VoltageHighest">>,
      <<"VoltageAlarm", "VoltageAlarm">>, <<"VoltageMinimumAlarm", "VoltageMinimumAlarm">>,
      <<"VoltageMaximumAlarm", "VoltageMaximumAlarm">>, <<"VoltageBeep", "VoltageBeep">>,
      <<"VoltageLCriticalAlarm", "VoltageLCriticalAlarm">>,
      <<"VoltageCriticalAlarm", "VoltageCriticalAlarm">>, <<"FanInput", "FanInput">>,
      <<"FanMinimum", "FanMinimum">>, <<"FanMaximum", "FanMaximum">>, <<"FanAlarm", "FanAlarm">>,
      <<"FanFault", "FanFault">>, <<"FanDivisor", "FanDivisor">>, <<"FanBeep", "FanBeep">>,
      <<"FanPulses", "FanPulses">>, <<"FanMinimumAlarm", "FanMinimumAlarm">>,
      <<"FanMaximumAlarm", "FanMaximumAlarm">>, <<"TemperatureInput", "TemperatureInput">>,
      <<"TemperatureMaximum", "TemperatureMaximum">>,
      <<"TemperatureMaximumHysteresis", "TemperatureMaximumHysteresis">>,
      <<"TemperatureMinimum", "TemperatureMinimum">>,
      <<"TemperatureCritical", "TemperatureCritical">>,
      <<"TemperatureCriticalHysteresis", "TemperatureCriticalHysteresis">>,
      <<"TemperatureLCritical", "TemperatureLCritical">>,
      <<"TemperatureEmergency", "TemperatureEmergency">>,
      <<"TemperatureEmergencyHysteresis", "TemperatureEmergencyHysteresis">>,
      <<"TemperatureLowest", "TemperatureLowest">>, <<"TemperatureHighest", "TemperatureHighest">>,
      <<"TemperatureMinimumHysteresis", "TemperatureMinimumHysteresis">>,
      <<"TemperatureLCriticalHysteresis", "TemperatureLCriticalHysteresis">>,
      <<"TemperatureAlarm", "TemperatureAlarm">>,
      <<"TemperatureMaximumAlarm", "TemperatureMaximumAlarm">>,
      <<"TemperatureMinimumAlarm", "TemperatureMinimumAlarm">>,
      <<"TemperatureCriticalAlarm", "TemperatureCriticalAlarm">>,
      <<"TemperatureFault", "TemperatureFault">>, <<"TemperatureType", "TemperatureType">>,
      <<"TemperatureOffset", "TemperatureOffset">>, <<"TemperatureBeep", "TemperatureBeep">>,
      <<"TemperatureEmergencyAlarm", "TemperatureEmergencyAlarm">>,
      <<"TemperatureLCriticalAlarm", "TemperatureLCriticalAlarm">>,
      <<"PowerAverage", "PowerAverage">>, <<"PowerAverageHighest", "PowerAverageHighest">>,
      <<"PowerAverageLowest", "PowerAverageLowest">>, <<"PowerInput", "PowerInput">>,
      <<"PowerInputHighest", "PowerInputHighest">>, <<"PowerInputLowest", "PowerInputLowest">>,
      <<"PowerCap", "PowerCap">>, <<"PowerCapHysteresis", "PowerCapHysteresis">>,
      <<"PowerMaximum", "PowerMaximum">>, <<"PowerCritical", "PowerCritical">>,
      <<"PowerMinimum", "PowerMinimum">>, <<"PowerLCritical", "PowerLCritical">>,
      <<"PowerAverageInterval", "PowerAverageInterval">>, <<"PowerAlarm", "PowerAlarm">>,
      <<"PowerCapAlarm", "PowerCapAlarm">>, <<"PowerMaximumAlarm", "PowerMaximumAlarm">>,
      <<"PowerCriticalAlarm", "PowerCriticalAlarm">>, <<"PowerMinimumAlarm", "PowerMinimumAlarm">>,
      <<"PowerLCriticalAlarm", "PowerLCriticalAlarm">>, <<"EnergyInput", "EnergyInput">>,
      <<"CurrentInput", "CurrentInput">>, <<"CurrentMinimum", "CurrentMinimum">>,
      <<"CurrentMaximum", "CurrentMaximum">>, <<"CurrentLCritical", "CurrentLCritical">>,
      <<"CurrentCritical", "CurrentCritical">>, <<"CurrentAverage", "CurrentAverage">>,
      <<"CurrentLowest", "CurrentLowest">>, <<"CurrentHighest", "CurrentHighest">>,
      <<"CurrentAlarm", "CurrentAlarm">>, <<"CurrentMinimumAlarm", "CurrentMinimumAlarm">>,
      <<"CurrentMaximumAlarm", "CurrentMaximumAlarm">>, <<"CurrentBeep", "CurrentBeep">>,
      <<"CurrentLCriticalAlarm", "CurrentLCriticalAlarm">>,
      <<"CurrentCriticalAlarm", "CurrentCriticalAlarm">>, <<"HumidityInput", "HumidityInput">>,
      <<"VoltageID", "VoltageID">>, <<"IntrusionAlarm", "IntrusionAlarm">>,
      <<"IntrusionBeep", "IntrusionBeep">>, <<"BeepEnable", "BeepEnable">>,
      <<"Unknown", "Unknown">> }

\* The arms of the match in Value::raw_value (value.rs:448-561):
\* <<variant, expression returned>>.
ValueRawValueArms ==
    { <<"VoltageInput", "value">>, <<"VoltageMinimum", "value">>, <<"VoltageMaximum", "value">>,
      <<"VoltageLCritical", "value">>, <<"VoltageCritical", "value">>,
      <<"VoltageAverage", "value">>, <<"VoltageLowest", "value">>, <<"VoltageHighest", "value">>,
      <<"FanInput", "value">>, <<"FanMinimum", "value">>, <<"FanMaximum", "value">>,
      <<"FanDivisor", "value">>, <<"FanPulses", "value">>, <<"TemperatureInput", "value">>,
      <<"TemperatureMaximum", "value">>, <<"TemperatureMaximumHysteresis", "value">>,
      <<"TemperatureMinimum", "value">>, <<"TemperatureCritical", "value">>,
      <<"TemperatureCriticalHysteresis", "value">>, <<"TemperatureLCritical", "value">>,
      <<"TemperatureEmergency", "value">>, <<"TemperatureEmergencyHysteresis", "value">>,
      <<"TemperatureLowest", "value">>, <<"TemperatureHighest", "value">>,
      <<"TemperatureMinimumHysteresis", "value">>, <<"TemperatureLCriticalHysteresis", "value">>,
      <<"TemperatureOffset", "value">>, <<"PowerAverage", "value">>,
      <<"PowerAverageHighest", "value">>, <<"PowerAverageLowest", "value">>,
      <<"PowerInput", "value">>, <<"PowerInputHighest", "value">>, <<"PowerInputLowest", "value">>,
      <<"PowerCap", "value">>, <<"PowerCapHysteresis", "value">>, <<"PowerMaximum", "value">>,
      <<"PowerCritical", "value">>, <<"PowerMinimum", "value">>, <<"PowerLCritical", "value">>,
      <<"PowerAverageInterval", "value">>, <<"EnergyInput", "value">>, <<"CurrentInput", "value">>,
      <<"CurrentMinimum", "value">>, <<"CurrentMaximum", "value">>,
      <<"CurrentLCritical", "value">>, <<"CurrentCritical", "value">>,
      <<"CurrentAverage", "value">>, <<"CurrentLowest", "value">>, <<"CurrentHighest", "value">>,
      <<"HumidityInput", "value">>, <<"VoltageID", "value">>, <<"Unknown", "value">>,
      <<"VoltageAlarm", "if value { 1.0 } else { 0.0 }">>,
      <<"VoltageMinimumAlarm", "if value { 1.0 } else { 0.0 }">>,
      <<"VoltageMaximumAlarm", "if value { 1.0 } else { 0.0 }">>,
      <<"VoltageBeep", "if value { 1.0 } else { 0.0 }">>,
      <<"VoltageLCriticalAlarm", "if value { 1.0 } else { 0.0 }">>,
      <<"VoltageCriticalAlarm", "if value { 1.0 } else { 0.0 }">>,
      <<"FanAlarm", "if value { 1.0 } else { 0.0 }">>,
      <<"FanFault", "if value { 1.0 } else { 0.0 }">>,
      <<"FanBeep", "if value { 1.0 } else { 0.0 }">>,
      <<"FanMinimumAlarm", "if value { 1.0 } else { 0.0 }">>,
      <<"FanMaximumAlarm", "if value { 1.0 } else { 0.0 }">>,
      <<"TemperatureAlarm", "if value { 1.0 } else { 0.0 }">>,
      <<"TemperatureMaximumAlarm", "if value { 1.0 } else { 0.0 }">>,
      <<"TemperatureMinimumAlarm", "if value { 1.0 } else { 0.0 }">>,
      <<"TemperatureCriticalAlarm", "if value { 1.0 } else { 0.0 }">>,
      <<"TemperatureFault", "if value { 1.0 } else { 0.0 }">>,
      <<"TemperatureBeep", "if value { 1.0 } else { 0.0 }">>,
      <<"TemperatureEmergencyAlarm", "if value { 1.0 } else { 0.0 }">>,
      <<"TemperatureLCriticalAlarm", "if value { 1.0 } else { 0.0 }">>,
      <<"PowerAlarm", "if value { 1.0 } else { 0.0 }">>,
      <<"PowerCapAlarm", "if value { 1.0 } else { 0.0 }">>,
      <<"PowerMaximumAlarm", "if value { 1.0 } else { 0.0 }">>,
      <<"PowerCriticalAlarm", "if value { 1.0 } else { 0.0 }">>,
      <<"PowerMinimumAlarm", "if value { 1.0 } else { 0.0 }">>,
      <<"PowerLCriticalAlarm", "if value { 1.0 } else { 0.0 }">>,
      <<"CurrentAlarm", "if value { 1.0 } else { 0.0 }">>,
      <<"CurrentMinimumAlarm", "if value { 1.0 } else { 0.0 }">>,
      <<"CurrentMaximumAlarm", "if value { 1.0 } else { 0.0 }">>,
      <<"CurrentBeep", "if value { 1.0 } else { 0.0 }">>,
      <<"CurrentLCriticalAlarm", "if value { 1.0 } else { 0.0 }">>,
      <<"CurrentCriticalAlarm", "if value { 1.0 } else { 0.0 }">>,
      <<"IntrusionAlarm", "if value { 1.0 } else { 0.0 }">>,
      <<"IntrusionBeep", "if value { 1.0 } else { 0.0 }">>,
      <<"BeepEnable", "if value { 1.0 } else { 0.0 }">>, <<"TemperatureType", "as_raw">> }

\* The arm of a match whose pattern is `key`.
Arm(arms, key) == CHOOSE a \in arms : a[1] = key

\* enum Kind, as the patterns of the match in Value::new.
Kinds == {a[1] : a \in ValueNewArms}

\* Mutation: only positive values count as non-zero.
IsNonZero_positive(v) == v.cls \in {"inf", "huge", "fin"} /\ v.h > 0

\* `value != 0.0_f64`: false for both zeros, true for NaN.
IsNonZero(v) == v.cls \in {"nan", "inf", "huge"} \/ (v.cls = "fin" /\ v.h # 0)

\* Value::new(kind, value): the results the call may return.
Value_new(kind, v) ==
    LET arm == Arm(ValueNewArms, kind)
    IN CASE arm[3] = "value" -> {<<[variant |-> arm[2], value |-> v]>>}
         [] arm[3] = "value != 0.0" -> {<<[variant |-> arm[2], value |-> IsNonZero(v)]>>}
         [] arm[3] = "from_raw(value)?" ->
                {IF r = <<>> THEN <<>> ELSE <<[variant |-> arm[2], value |-> r[1]]>> :
                    r \in TemperatureSensorKind_from_raw(v)}
         [] arm[3] = "kind, value" -> {<<[variant |-> arm[2], kind |-> kind, value |-> v]>>}

\* Value::kind.
Value_kind(val) == Arm(ValueKindArms, val.variant)[2]

\* Value::raw_value.
Value_raw_value(val) ==
    LET arm == Arm(ValueRawValueArms, val.variant)
    IN CASE arm[2] = "value" -> val.value
         [] arm[2] = "if value { 1.0 } else { 0.0 }" ->
                (IF val.value THEN Double(100) ELSE Double(0))
         [] arm[2] = "as_raw" -> Double(val.value * 100)

\* Value::new is called, then kind() and raw_value() on the value it returned.
ValueNew ==
    /\ calc = NoCalc
    /\ \E kind \in Kinds, v \in Doubles : \E r \in Value_new(kind, v) :
        calc' = [fn |-> "Value::new", kind |-> kind, v |-> v, out |-> r,
                 out_kind |-> IF r = <<>> THEN <<>> ELSE <<Value_kind(r[1])>>,
                 out_raw_value |-> IF r = <<>> THEN <<>> ELSE <<Value_raw_value(r[1])>>]
    /\ UNCHANGED library

(***************************************************************************)
(* bus::Kind and bus::Number (bus.rs:120-233) and their raw c_short form.  *)
(***************************************************************************)
\* c_short: a signed 16-bit integer.
c_short == (0 - 32768)..32767

\* enum Kind (bus.rs:134-155) with its discriminants SENSORS_BUS_TYPE_*.
BusKindCodes ==
    { <<"Any", 0 - 1>>, <<"I2C", 0>>, <<"ISA", 1>>, <<"PCI", 2>>, <<"SPI", 3>>,
      <<"Virtual", 4>>, <<"ACPI", 5>>, <<"HID", 6>>, <<"MDIO", 7>>, <<"SCSI", 8>> }

BusKinds == {a[1] : a \in BusKindCodes}

\* Kind::from_raw: Self::try_from(kind).ok().
BusKind_from_raw(n) ==
    IF \E a \in BusKindCodes : a[2] = n
    THEN <<(CHOOSE a \in BusKindCodes : a[2] = n)[1]>>
    ELSE <<>>

\* Kind::as_raw: self.into().
BusKind_as_raw(k) == Arm(BusKindCodes, k)[2]

SENSORS_BUS_NR_ANY == 0 - 1
SENSORS_BUS_NR_IGNORE == 0 - 2

\* enum Number: Any, Ignore or Number(n).
Number_Any == [tag |-> "Any", n |-> 0]
Number_Ignore == [tag |-> "Ignore", n |-> 0]
Number_Number(n) == [tag |-> "Number", n |-> n]
Numbers == {Number_Any, Number_Ignore} \cup {Number_Number(n) : n \in c_short}

\* Mutation: the Ignore sentinel is not recognised.
Number_from_noignore(other) ==
    IF other = SENSORS_BUS_NR_ANY THEN Number_Any ELSE Number_Number(other)

\* impl From<c_short> for Number.
Number_from(other) ==
    CASE other = SENSORS_BUS_NR_ANY -> Number_Any
      [] other = SENSORS_BUS_NR_IGNORE -> Number_Ignore
      [] OTHER -> Number_Number(other)

\* impl From<Number> for c_short.
c_short_from(other) ==
    CASE other.tag = "Any" -> SENSORS_BUS_NR_ANY
      [] other.tag = "Ignore" -> SENSORS_BUS_NR_IGNORE
      [] other.tag = "Number" -> other.n

\* A bus number is encoded, decoded and encoded again.
BusNumberRoundTrip ==
    /\ calc = NoCalc
    /\ \E x \in Numbers :
        LET raw == c_short_from(x)
        IN calc' = [fn |-> "bus::Number", x |-> x, raw |-> raw, decoded |-> Number_from(raw),
                    reencoded |-> c_short_from(Number_from(raw))]
    /\ UNCHANGED library

\* A raw bus type is decoded, and what it gives is encoded.
BusKindFromRaw ==
    /\ calc = NoCalc
    /\ \E n \in c_short :
        LET k == BusKind_from_raw(n)
        IN calc' = [fn |-> "bus::Kind::from_raw", n |-> n, out |-> k,
                    reencoded |-> IF k = <<>> THEN <<>> ELSE <<BusKind_as_raw(k[1])>>]
    /\ UNCHANGED library

\* A bus kind is encoded, and its raw form decoded.
BusKindAsRaw ==
    /\ calc = NoCalc
    /\ \E k \in BusKinds :
        calc' = [fn |-> "bus::Kind::as_raw", k |-> k, raw |-> BusKind_as_raw(k),
                 decoded |-> BusKind_from_raw(BusKind_as_raw(k))]
    /\ UNCHANGED library

\* Mutation: a code that is not recognized becomes Kind::Unknown.
Kind_from_raw_fallback(raw) == IF raw \in Kinds THEN <<raw>> ELSE <<"Unknown">>

\* Kind::from_raw (value.rs:942-944): `Self::try_from(kind).ok()`.
Kind_from_raw(raw) == IF raw \in Kinds THEN <<raw>> ELSE <<>>

\* Value::from_raw (value.rs:337): the results the call may return.
Value_from_raw(raw, v) ==
    IF Kind_from_raw(raw) = <<>> THEN {<<>>} ELSE Value_new(Kind_from_raw(raw)[1], v)

(***************************************************************************)
(* Value::set_raw_value (value.rs:565-688).                                *)
(***************************************************************************)
\* The arms of the match in Value::set_raw_value (value.rs:566-687):
\* <<variant, expression stored>>.
ValueSetRawValueArms ==
    { <<"VoltageInput", "new_value">>, <<"VoltageMinimum", "new_value">>,
      <<"VoltageMaximum", "new_value">>, <<"VoltageLCritical", "new_value">>,
      <<"VoltageCritical", "new_value">>, <<"VoltageAverage", "new_value">>,
      <<"VoltageLowest", "new_value">>, <<"VoltageHighest", "new_value">>,
      <<"FanInput", "new_value">>, <<"FanMinimum", "new_value">>, <<"FanMaximum", "new_value">>,
      <<"FanDivisor", "new_value">>, <<"FanPulses", "new_value">>,
      <<"TemperatureInput", "new_value">>, <<"TemperatureMaximum", "new_value">>,
      <<"TemperatureMaximumHysteresis", "new_value">>, <<"TemperatureMinimum", "new_value">>,
      <<"TemperatureCritical", "new_value">>, <<"TemperatureCriticalHysteresis", "new_value">>,
      <<"TemperatureLCritical", "new_value">>, <<"TemperatureEmergency", "new_value">>,
      <<"TemperatureEmergencyHysteresis", "new_value">>, <<"TemperatureLowest", "new_value">>,
      <<"TemperatureHighest", "new_value">>, <<"TemperatureMinimumHysteresis", "new_value">>,
      <<"TemperatureLCriticalHysteresis", "new_value">>, <<"TemperatureOffset", "new_value">>,
      <<"PowerAverage", "new_value">>, <<"PowerAverageHighest", "new_value">>,
      <<"PowerAverageLowest", "new_value">>, <<"PowerInput", "new_value">>,
      <<"PowerInputHighest", "new_value">>, <<"PowerInputLowest", "new_value">>,
      <<"PowerCap", "new_value">>, <<"PowerCapHysteresis", "new_value">>,
      <<"PowerMaximum", "new_value">>, <<"PowerCritical", "new_value">>,
      <<"PowerMinimum", "new_value">>, <<"PowerLCritical", "new_value">>,
      <<"PowerAverageInterval", "new_value">>, <<"EnergyInput", "new_value">>,
      <<"CurrentInput", "new_value">>, <<"CurrentMinimum", "new_value">>,
      <<"CurrentMaximum", "new_value">>, <<"CurrentLCritical", "new_value">>,
      <<"CurrentCritical", "new_value">>, <<"CurrentAverage", "new_value">>,
      <<"CurrentLowest", "new_value">>, <<"CurrentHighest", "new_value">>,
      <<"HumidityInput", "new_value">>, <<"VoltageID", "new_value">>, <<"Unknown", "new_value">>,
      <<"VoltageAlarm", "new_value != 0.0">>, <<"VoltageMinimumAlarm", "new_value != 0.0">>,
      <<"VoltageMaximumAlarm", "new_value != 0.0">>, <<"VoltageBeep", "new_value != 0.0">>,
      <<"VoltageLCriticalAlarm", "new_value != 0.0">>,
      <<"VoltageCriticalAlarm", "new_value != 0.0">>, <<"FanAlarm", "new_value != 0.0">>,
      <<"FanFault", "new_value != 0.0">>, <<"FanBeep", "new_value != 0.0">>,
      <<"FanMinimumAlarm", "new_value != 0.0">>, <<"FanMaximumAlarm", "new_value != 0.0">>,
      <<"TemperatureAlarm", "new_value != 0.0">>,
      <<"TemperatureMaximumAlarm", "new_value != 0.0">>,
      <<"TemperatureMinimumAlarm", "new_value != 0.0">>,
      <<"TemperatureCriticalAlarm", "new_value != 0.0">>,
      <<"TemperatureFault", "new_value != 0.0">>, <<"TemperatureBeep", "new_value != 0.0">>,
      <<"TemperatureEmergencyAlarm", "new_value != 0.0">>,
      <<"TemperatureLCriticalAlarm", "new_value != 0.0">>, <<"PowerAlarm", "new_value != 0.0">>,
      <<"PowerCapAlarm", "new_value != 0.0">>, <<"PowerMaximumAlarm", "new_value != 0.0">>,
      <<"PowerCriticalAlarm", "new_value != 0.0">>, <<"PowerMinimumAlarm", "new_value != 0.0">>,
      <<"PowerLCriticalAlarm", "new_value != 0.0">>, <<"CurrentAlarm", "new_value != 0.0">>,
      <<"CurrentMinimumAlarm", "new_value != 0.0">>, <<"CurrentMaximumAlarm", "new_value != 0.0">>,
      <<"CurrentBeep", "new_value != 0.0">>, <<"CurrentLCriticalAlarm", "new_value != 0.0">>,
      <<"CurrentCriticalAlarm", "new_value != 0.0">>, <<"IntrusionAlarm", "new_value != 0.0">>,
      <<"IntrusionBeep", "new_value != 0.0">>, <<"BeepEnable", "new_value != 0.0">>,
      <<"TemperatureType", "from_raw(new_value)?">> }

\* Mutation: the new value is not stored.
Value_set_raw_value_keep(val, new_value) ==
    {[out |-> Ok, result |-> <<Value_raw_value(val)>>, value |-> val]}

\* Value::set_raw_value(&mut self, new_value): the outcomes the call may
\* have: the Result, the f64 it returns and the value self holds afterwards.
Value_set_raw_value(val, new_value) ==
    LET arm == Arm(ValueSetRawValueArms, val.variant)
    IN CASE arm[2] = "new_value" ->
                {[out |-> Ok, result |-> <<val.value>>,
                  value |-> [val EXCEPT !.value = new_value]]}
         [] arm[2] = "new_value != 0.0" ->
                {[out |-> Ok,
                  result |-> <<IF val.value THEN Double(100) ELSE Double(0)>>,
                  value |-> [val EXCEPT !.value = IsNonZero(new_value)]]}
         [] arm[2] = "from_raw(new_value)?" ->
                {IF r = <<>>
                 THEN [out |-> from_io("TemperatureSensorKind::new", "InvalidData"),
                       result |-> <<>>, value |-> val]
                 ELSE [out |-> Ok, result |-> <<Double(val.value * 100)>>,
                       value |-> [val EXCEPT !.value = r[1]]] :
                    r \in TemperatureSensorKind_from_raw(new_value)}

\* A value is made with Value::from_raw from the code of a kind and a raw
\* value a, then set_raw_value(b) is called on it.
ValueSetRawValue ==
    /\ calc = NoCalc
    /\ \E kind \in Kinds, a \in {Double(0), Double(349)}, b \in Doubles :
        \E v0 \in Value_from_raw(kind, a) \ {<<>>} :
            \E o \in Value_set_raw_value(v0[1], b) :
                calc' = [fn |-> "Value::set_raw_value", kind |-> kind, a |-> a, b |-> b,
                         before |-> v0[1], out |-> o.out, result |-> o.result,
                         after |-> o.value]
    /\ UNCHANGED library

(***************************************************************************)
(* impl Display for Bus, ChipRef, Chip, FeatureRef and SubFeatureRef.      *)
(***************************************************************************)
\* char::REPLACEMENT_CHARACTER, written "\u{fffd}" in the source.
REPLACEMENT_CHARACTER == "U+FFFD"

\* CStr::to_string_lossy: a byte sequence that is not UTF-8 is replaced.
to_string_lossy(name) ==
    [i \in 1..Len(name) |-> IF name[i] = "invalid" THEN REPLACEMENT_CHARACTER ELSE name[i]]

\* What each impl writes in its else branch, when the lookup of the name
\* (raw_name) or of the label (raw_label) has given no string: bus.rs:111-119,
\* chip.rs:336-344 and chip/mod.rs:272-280, feature.rs:154-162,
\* sub_feature.rs:160-168 (`Ok(())`: nothing is written).
DisplayImpls ==
    { <<"Bus", <<REPLACEMENT_CHARACTER>> >>,
      <<"ChipRef", <<REPLACEMENT_CHARACTER>> >>,
      <<"Chip", <<REPLACEMENT_CHARACTER>> >>,
      <<"FeatureRef", <<REPLACEMENT_CHARACTER>> >>,
      <<"SubFeatureRef", <<>> >> }

\* fmt(): `if let Ok(name) = .. { write!(f, "{}", name.to_string_lossy()) }
\* else { .. }`; lookup is <<name>> or <<>>.
Display_fmt(handle, lookup) ==
    IF lookup # <<>> THEN to_string_lossy(lookup[1]) ELSE Arm(DisplayImpls, handle)[2]

\* A handle is formatted; the lookup of its name or label succeeds or fails.
DisplayFmt ==
    /\ calc = NoCalc
    /\ \E handle \in {a[1] : a \in DisplayImpls},
          lookup \in {<<>>, << <<>> >>, << <<"a">> >>, << <<"a", "invalid">> >>} :
        calc' = [fn |-> "Display::fmt", handle |-> handle, lookup |-> lookup,
                 out |-> Display_fmt(handle, lookup)]
    /\ UNCHANGED library

\* The pure functions of the crate, called with any arguments.
NextPure ==
    \/ ChipEq
    \/ TemperatureSensorKindFromRaw
    \/ ValueNew
    \/ BusNumberRoundTrip
    \/ BusKindFromRaw
    \/ BusKindAsRaw
    \/ DisplayFmt
    \/ ValueSetRawValue

SpecPure == Init /\ [][NextPure]_vars

(***************************************************************************)
(* Sub-feature values (sub_feature.rs:78-146, sub_feature/mod.rs:92-160).  *)
(***************************************************************************)
\* The two files of the source tree that define module sub_feature.
SubFeatureModules == {"sub_feature.rs", "sub_feature/mod.rs"}

\* Raw kinds of the sub-features explored: a kind carrying a double, one
\* carrying a boolean, TemperatureType, Unknown, and a code that is no Kind.
SampleRawKinds == {"VoltageInput", "VoltageAlarm", "TemperatureType", "Unknown", "unrecognized"}

\* A sub-feature: its chip, the number of its feature, its own number and
\* its raw kind.
SubFeatures ==
    [chip : 1..MaxChips, feature_number : 0..1, number : 0..1, raw_kind : SampleRawKinds]

\* Values a caller may pass to set_value.
SetValues ==
    UNION {Value_new(k, x) : k \in SampleRawKinds \cap Kinds,
                             x \in {Double(0), Double(349), Double(0 - 100)}} \ {<<>>}

\* The number passed to sensors_get_value and sensors_set_value:
\* `self.number()` in sub_feature.rs:122 and 136, `self.feature.as_ref().number`
\* in sub_feature/mod.rs:135 and 151.
NumberArgument(module, sf) ==
    IF module = "sub_feature.rs" THEN sf.number ELSE sf.feature_number

\* SubFeatureRef::value: raw_value() takes the lock, calls sensors_get_value
\* and tests its status; the double read is converted with Value::from_raw.
\* The mutex is not poisoned here (OpLock has that path).
SubFeatureValue(t) ==
    /\ Ready(t)
    /\ Len(libs[t]) > 0
    /\ CanLock(t)
    /\ ~poisoned
    /\ calc = NoCalc
    /\ \E module \in SubFeatureModules, sf \in SubFeatures, r \in BackendStatuses, x \in Doubles :
        \E val \in Value_from_raw(sf.raw_kind, x) :
            /\ r # 0 => x = Double(0)
            /\ calc' = [fn |-> "SubFeatureRef::value", module |-> module, sf |-> sf,
                        call |-> <<[fn |-> "sensors_get_value", chip |-> sf.chip,
                                    number |-> NumberArgument(module, sf)]>>,
                        r |-> r, result |-> x,
                        out |-> IF ~StatusIsOk(r) THEN from_lm_sensors("sensors_get_value()", r)
                                ELSE IF val = <<>> THEN from_io("Value::from_raw", "InvalidData")
                                ELSE Ok,
                        value |-> IF StatusIsOk(r) THEN val ELSE <<>>]
    /\ UNCHANGED library

\* SubFeatureRef::set_value: set_raw_value(new_value.raw_value()) takes the
\* lock, calls sensors_set_value and tests its status.
SubFeatureSetValue(t) ==
    /\ Ready(t)
    /\ Len(libs[t]) > 0
    /\ CanLock(t)
    /\ ~poisoned
    /\ calc = NoCalc
    /\ \E module \in SubFeatureModules, sf \in SubFeatures, r \in BackendStatuses, v \in SetValues :
        calc' = [fn |-> "SubFeatureRef::set_value", module |-> module, sf |-> sf,
                 new_value |-> v[1],
                 call |-> <<[fn |-> "sensors_set_value", chip |-> sf.chip,
                             number |-> NumberArgument(module, sf),
                             value |-> Value_raw_value(v[1])]>>,
                 r |-> r,
                 out |-> IF StatusIsOk(r) THEN Ok
                         ELSE from_lm_sensors("sensors_set_value()", r)]
    /\ UNCHANGED library

\* Thread 1 initializes an instance, then reads or writes the value of one of
\* its sub-features.
NextValues ==
    \/ Initialize(1)
    \/ NewLock(1)
    \/ NewCheck(1)
    \/ SensorsInitReturns(1)
    \/ NewFinish(1)
    \/ SensorsStrerrorReturns(1)
    \/ Return(1)
    \/ SubFeatureValue(1)
    \/ SubFeatureSetValue(1)

SpecValues == Init /\ [][NextValues]_vars

(***************************************************************************)
(* Owned chips: LMSensors::new_chip and new_raw_chip (lib.rs:370-384),     *)
(* Chip::new, into_raw_parts and Drop (chip.rs:29-62, 166-174).            *)
(***************************************************************************)
\* LMSensors::new_chip(&self, name): Chip::new starts; the record it will
\* fill is a fresh one.
ChipNew(t) ==
    /\ Ready(t)
    /\ Len(libs[t]) > 0
    /\ \E c \in 1..MaxParsed :
        /\ chips[c].state = "none"
        /\ \A d \in 1..MaxParsed : d < c => chips[d].state # "none"
        /\ loc' = [loc EXCEPT ![t].chip = c]
    /\ op' = [op EXCEPT ![t] = "new_chip"]
    /\ pc' = [pc EXCEPT ![t] = "op_lock"]
    /\ UNCHANGED <<lockHolder, poisoned, INITIALIZED, ERROR_LISTENER, callBacks,
                   backendSessions, listenerState, aborted, fatalReturned,
                   iters, libs, chips, calc>>

\* Chip::into_raw_parts: mem::forget(self), the caller holds the record.
ChipIntoRawParts(t) ==
    /\ Ready(t)
    /\ \E c \in 1..MaxParsed :
        /\ chips[c].owner = t
        /\ chips[c].state = "owned"
        /\ chips' = [chips EXCEPT ![c].state = "raw"]
    /\ UNCHANGED <<lockHolder, poisoned, INITIALIZED, ERROR_LISTENER, callBacks,
                   backendSessions, listenerState, aborted, fatalReturned,
                   iters, pc, op, loc, libs, calc>>

\* LMSensors::new_raw_chip(&self, chip) on a record the caller holds.
NewRawChip(t) ==
    /\ Ready(t)
    /\ Len(libs[t]) > 0
    /\ \E c \in 1..MaxParsed :
        /\ chips[c].owner = t
        /\ chips[c].state = "raw"
        /\ chips' = [chips EXCEPT ![c] = [@ EXCEPT !.state = "owned", !.wrapped = TRUE]]
    /\ UNCHANGED <<lockHolder, poisoned, INITIALIZED, ERROR_LISTENER, callBacks,
                   backendSessions, listenerState, aborted, fatalReturned,
                   iters, pc, op, loc, libs, calc>>

\* A Chip goes out of scope: Drop::drop starts.
DropChip(t) ==
    /\ Ready(t)
    /\ \E c \in 1..MaxParsed :
        /\ chips[c].owner = t
        /\ chips[c].state = "owned"
        /\ chips' = [chips EXCEPT ![c].state = "dropping"]
        /\ loc' = [loc EXCEPT ![t].chip = c]
    /\ op' = [op EXCEPT ![t] = "drop_chip"]
    /\ pc' = [pc EXCEPT ![t] = "chip_drop_lock"]
    /\ UNCHANGED <<lockHolder, poisoned, INITIALIZED, ERROR_LISTENER, callBacks,
                   backendSessions, listenerState, aborted, fatalReturned,
                   iters, libs, calc>>

\* chip.rs:169-172 `let _ignored = api_access_lock().lock().map(|_guard| ..)`:
\* on a poisoned mutex the closure does not run and the record is not freed.
ChipDropLock(t) ==
    /\ ~aborted
    /\ pc[t] = "chip_drop_lock"
    /\ CanLock(t)
    /\ IF poisoned
       THEN /\ chips' = [chips EXCEPT ![loc[t].chip].state = "dropped"]
            /\ loc' = [loc EXCEPT ![t].sawPoison = TRUE]
            /\ pc' = [pc EXCEPT ![t] = "done"]
            /\ UNCHANGED lockHolder
       ELSE /\ lockHolder' = t
            /\ pc' = [pc EXCEPT ![t] = "sensors_free_chip_name"]
            /\ UNCHANGED <<chips, loc>>
    /\ UNCHANGED <<poisoned, INITIALIZED, ERROR_LISTENER, callBacks,
                   backendSessions, listenerState, aborted, fatalReturned,
                   iters, op, libs, calc>>

\* sensors_free_chip_name(&mut self.raw) returns; the guard dies.
SensorsFreeChipNameReturns(t) ==
    /\ ~aborted
    /\ pc[t] = "sensors_free_chip_name"
    /\ chips' = [chips EXCEPT ![loc[t].chip] =
                    [@ EXCEPT !.state = "dropped", !.frees = @ + 1]]
    /\ loc' = [loc EXCEPT ![t].called = TRUE]
    /\ lockHolder' = NoThread
    /\ pc' = [pc EXCEPT ![t] = "done"]
    /\ UNCHANGED <<poisoned, INITIALIZED, ERROR_LISTENER, callBacks,
                   backendSessions, listenerState, aborted, fatalReturned,
                   iters, op, libs, calc>>

\* Thread 1 owns the instance, parses chips, takes them apart, wraps them
\* again and drops them; thread 2 reads bus names.
NextChips ==
    \/ Lifecycle(1)
    \/ ChipNew(1)
    \/ OpLock(1)
    \/ BackendCallReturns(1)
    \/ ChipIntoRawParts(1)
    \/ NewRawChip(1)
    \/ DropChip(1)
    \/ ChipDropLock(1)
    \/ SensorsFreeChipNameReturns(1)
    \/ BusUser(2)

SpecChips == Init /\ [][NextChips]_vars

(***************************************************************************)
(* Properties.                                                             *)
(***************************************************************************)
\* initialize() has returned to thread t and the caller has not yet taken
\* the result.
InitializeDone(t) == pc[t] = "done" /\ op[t] = "initialize"

\* C1: in every reachable state at most one LMSensors instance is live,
\* whatever the interleaving of initialize() and drop on the threads.
C1_AtMostOneLive ==
    /\ \A t \in Threads : LiveInstances(t) <= 1
    /\ \A t, u \in Threads : t # u => ~(LiveInstances(t) > 0 /\ LiveInstances(u) > 0)

\* One thread owns the instance and another's initialize() was refused.
C1_Witness ==
    \E t, u \in Threads :
        /\ t # u
        /\ Len(libs[t]) = 1
        /\ InitializeDone(u)
        /\ loc[u].res.kind = "AlreadyExists"

InBackendUnderLock(t) ==
    pc[t] \in LockedCalls \cup {"on_config_error", "on_fatal_error"}

InBackend(t) == InBackendUnderLock(t) \/ pc[t] = "sensors_strerror"

\* C3, as stated: no backend function is called without the lock held, so no
\* two backend calls execute at the same time.
C3_AllBackendCallsLocked ==
    /\ \A t \in Threads : InBackend(t) => lockHolder = t
    /\ \A t, u \in Threads : (InBackend(t) /\ InBackend(u)) => t = u

\* C3, amended: every backend call except sensors_strerror() is made with the
\* lock held, so no two of them execute at the same time.
C3_BackendCallsLockedExceptStrerror ==
    /\ \A t \in Threads : InBackendUnderLock(t) => lockHolder = t
    /\ \A t, u \in Threads : (InBackendUnderLock(t) /\ InBackendUnderLock(u)) => t = u

\* A thread is inside a backend call while another waits for the lock.
C3_Witness ==
    \E t, u \in Threads :
        /\ t # u
        /\ pc[t] \in LockedCalls
        /\ pc[u] \in {"new_lock", "op_lock", "drop_lock"}

\* C4, as stated: once a drop of an instance has finished, the three callback
\* slots and the listener pointer hold what they held before the instance was
\* initialized (the backend's handlers and no listener).
C4_DropRestores ==
    \A t \in Threads :
        (pc[t] = "done" /\ op[t] = "drop") =>
            /\ callBacks = BackendCallBacks
            /\ ERROR_LISTENER = NullListener

\* C5, as stated: sensors_init() and sensors_cleanup() run under the lock,
\* and once a drop has finished every successful sensors_init() has had its
\* one sensors_cleanup().
C5_InitCleanupPaired ==
    /\ backendSessions \in 0..1
    /\ \A t \in Threads :
        /\ pc[t] \in {"sensors_init", "sensors_cleanup"} => lockHolder = t
        /\ (pc[t] = "done" /\ op[t] = "drop") => backendSessions = 0

\* C6: the fatal callback calls the installed listener (the default one if
\* none is installed), and once the listener has returned the process is
\* terminated: nothing runs after it.
C6_FatalTerminates ==
    /\ fatalReturned => aborted
    /\ \A t \in Threads :
        pc[t] = "on_fatal_error" => loc[t].cbListener = CurrentListener

\* A custom listener has returned from on_lm_sensors_fatal_error.
C6_Witness ==
    /\ fatalReturned
    /\ aborted
    /\ \E t \in Threads :
        pc[t] = "on_fatal_error" /\ loc[t].cbListener \in ListenerIds

\* The listener an Initializer's diagnostics must reach.
SuppliedListener(t) ==
    IF loc[t].error_listener = NullListener THEN DefaultListener
    ELSE loc[t].error_listener

\* C7: a parse diagnostic raised during initialize() reaches the listener
\* given to that Initializer (the default one if none was given), and
\* initialize() returns Ok whenever sensors_init() returns 0, however many
\* diagnostics were raised.
C7_ParseErrorsToListener ==
    \A t \in Threads :
        op[t] = "initialize" =>
            /\ (loc[t].parseCount > 0
                /\ pc[t] \in {"sensors_init", "on_config_error", "new_ret", "done"})
                    => loc[t].cbListener = SuppliedListener(t)
            /\ (pc[t] = "done" /\ loc[t].called /\ loc[t].ret = 0)
                    => loc[t].res.tag = "Ok"

\* initialize() with a custom listener succeeded after a parse diagnostic.
C7_Witness ==
    \E t \in Threads :
        /\ InitializeDone(t)
        /\ loc[t].parseCount > 0
        /\ loc[t].error_listener \in ListenerIds
        /\ loc[t].res.tag = "Ok"

\* The operations that take the lock and return to their caller.
LockingOps == HandleOps \cup FreeOps \cup {"initialize", "next"}

\* C8, as stated: every operation that takes the lock, next() of the
\* iterators included, returns the Poisoned error when the lock is poisoned.
C8_PoisonedFailsAll ==
    \A t \in Threads :
        (pc[t] = "done" /\ op[t] \in LockingOps /\ loc[t].sawPoison)
            => loc[t].res.tag = "Poisoned"

\* C8, amended: when the lock is poisoned, every operation that returns a
\* Result returns the Poisoned error without calling the backend, and next()
\* of an iterator returns None without calling the backend.
C8_PoisonedFailsResultOps ==
    \A t \in Threads :
        (pc[t] = "done" /\ op[t] \in LockingOps /\ loc[t].sawPoison) =>
            /\ ~loc[t].called
            /\ op[t] # "next" => loc[t].res.tag = "Poisoned"
            /\ op[t] = "next" => loc[t].res.tag = "NoneItem"

\* A value read on a live instance met the poisoned lock.
C8_Witness ==
    \E t \in Threads :
        /\ pc[t] = "done"
        /\ op[t] = "raw_value"
        /\ loc[t].sawPoison
        /\ loc[t].res.tag = "Poisoned"

\* The operations whose backend call returns a status.
StatusCallOps == StatusOps \cup {"initialize", "raw_name"}

\* The status is an error: not 0, or for the length that
\* sensors_snprintf_chip_name() returns, negative.
ErrorStatus(o, r) == IF o = "raw_name" THEN r < 0 ELSE r # 0

\* C9: an error status of sensors_init, sensors_parse_chip_name,
\* sensors_get_value, sensors_set_value, sensors_do_chip_sets or
\* sensors_snprintf_chip_name is returned as the LMSensors error that names
\* the operation and carries the error number.
C9_StatusBecomesError ==
    \A t \in Threads :
        (pc[t] = "done" /\ op[t] \in StatusCallOps /\ loc[t].called
         /\ ErrorStatus(op[t], loc[t].ret)) =>
            /\ loc[t].res.tag = "LMSensors"
            /\ loc[t].res.operation = OperationName(op[t])
            /\ loc[t].res.number = Abs(loc[t].ret)

\* sensors_do_chip_sets() failed and the caller got the LMSensors error.
C9_Witness ==
    \E t \in Threads :
        /\ pc[t] = "done"
        /\ op[t] = "do_chip_sets"
        /\ loc[t].ret < 0
        /\ loc[t].res.tag = "LMSensors"

\* The positions of the table that the iterator's pattern selects.
Selected(it) ==
    {k \in 1..Len(it.entries) : Matches(it.entries[k], it.match_pattern)}

\* C10: an iterator starts at cursor 0; next() calls the backend under the
\* lock; what it has yielded are the selected entries up to the cursor, in
\* table order, each once; after the end of the table it has yielded them all
\* and every later next() returns None.
C10_IteratorOrder ==
    /\ \A i \in IterIds :
        LET it == iters[i]
        IN it.owner # NoThread =>
            /\ (it.yielded = <<>> /\ ~it.ended) => it.state = 0
            /\ \A a, b \in 1..Len(it.yielded) : a < b => it.yielded[a] < it.yielded[b]
            /\ {it.yielded[a] : a \in 1..Len(it.yielded)}
                  = {k \in Selected(it) : k <= it.state}
            /\ it.ended => Len(it.yielded) = Cardinality(Selected(it))
            /\ Len(it.yielded) <= Len(it.entries)
            /\ ~it.restarted
    /\ \A t \in Threads :
        /\ pc[t] = "iter_call" => lockHolder = t
        /\ (pc[t] = "done" /\ op[t] = "next" /\ loc[t].wasEnded)
              => loc[t].res.tag = "NoneItem"

\* An iterator yielded its entries, returned None, and next() was called
\* again and returned None again.
C10_Witness ==
    \E t \in Threads :
        /\ pc[t] = "done"
        /\ op[t] = "next"
        /\ loc[t].wasEnded
        /\ loc[t].called
        /\ loc[t].res.tag = "NoneItem"
        /\ Len(iters[loc[t].iter].yielded) >= 2

\* What an iterator yields when it runs alone to the end of its table: the
\* selected positions in table order, up to position n.
RECURSIVE AloneUpTo(_, _)
AloneUpTo(it, n) ==
    IF n = 0 THEN <<>>
    ELSE IF n \in Selected(it) THEN Append(AloneUpTo(it, n - 1), n)
    ELSE AloneUpTo(it, n - 1)

\* C11: two chip iterators of one instance, advanced in any interleaving by
\* any threads, each yield the sequence they would yield alone: at every
\* moment a prefix of it determined by the iterator's own cursor, and all of
\* it once the iterator has ended; every backend call of next() is under the
\* lock.
C11_SiblingsIndependent ==
    /\ \A i \in SiblingIds :
        LET it == iters[i]
        IN it.owner # NoThread =>
            /\ it.yielded = AloneUpTo(it, it.state)
            /\ it.ended => it.yielded = AloneUpTo(it, Len(it.entries))
    /\ \A t \in Threads : pc[t] = "iter_call" => lockHolder = t

\* Two iterators over the same table, advanced by different threads, have
\* both reached the end after yielding everything they select, and they
\* selected differently.
C11_Witness ==
    /\ iters[1].owner # NoThread
    /\ iters[2].owner # NoThread
    /\ iters[1].owner # iters[2].owner
    /\ iters[1].ended /\ iters[2].ended
    /\ Len(iters[1].yielded) = 2
    /\ Len(iters[2].yielded) = 1

\* C12: over one chip table, a chip iterator without a pattern that has run
\* to the end has yielded at least as many chips as a chip iterator with a
\* pattern that has run to the end.
C12_AllAtLeastPattern ==
    \A i, j \in SiblingIds :
        (/\ iters[i].owner # NoThread /\ iters[j].owner # NoThread
         /\ iters[i].ended /\ iters[j].ended
         /\ iters[i].match_pattern = NoPattern)
            => Len(iters[i].yielded) >= Len(iters[j].yielded)

\* Both iterations are complete and the pattern left a chip out.
C12_Witness ==
    \E i, j \in SiblingIds :
        /\ iters[i].ended /\ iters[j].ended
        /\ iters[i].match_pattern = NoPattern
        /\ iters[j].match_pattern # NoPattern
        /\ Len(iters[j].yielded) >= 1
        /\ Len(iters[i].yielded) > Len(iters[j].yielded)

\* C13, as stated: two chip handles compare equal exactly when their bus,
\* address, prefix string and path string are the same, whatever the
\* addresses of the strings and whichever of the two is owned or borrowed.
C13_ChipEqualityByContent ==
    calc.fn = "chip_eq" =>
        (calc.out <=>
            /\ calc.a.bus = calc.b.bus
            /\ calc.a.addr = calc.b.addr
            /\ RawString(calc.mem, calc.a.prefix) = RawString(calc.mem, calc.b.prefix)
            /\ RawString(calc.mem, calc.a.path) = RawString(calc.mem, calc.b.path))

\* The double is finite and below zero / above the threshold.
IsNegative(x) == (x.cls \in {"inf", "huge"} /\ x.h < 0) \/ (x.cls = "fin" /\ x.h < 0)

IsAbove1000(x) ==
    (x.cls \in {"inf", "huge"} /\ x.h > 0) \/ (x.cls = "fin" /\ x.h > ThermistorThreshold * 100)

\* C15, as stated: from_raw returns None for a negative or NaN input,
\* Thermistor for an input above 1000 or +Infinity, and for an input in
\* [0, 1000] the variant whose discriminant is the rounded input.
C15_FromRawByInput ==
    calc.fn = "TemperatureSensorKind::from_raw" =>
        /\ (calc.x.cls = "nan" \/ IsNegative(calc.x)) => calc.out = <<>>
        /\ IsAbove1000(calc.x) => calc.out = <<Thermistor>>
        /\ (calc.x.cls \in {"fin", "negzero"} /\ ~IsNegative(calc.x) /\ ~IsAbove1000(calc.x)
            /\ Nearest(calc.x) \in TemperatureSensorKinds)
                => calc.out = <<Nearest(calc.x)>>

\* C15, amended: from_raw returns None for NaN and -Infinity and Thermistor
\* for +Infinity; for a finite input whose rounded value n fits in an i64 it
\* returns None when n < 0, Thermistor when n > 1000, the variant with
\* discriminant n when n <= 6 and None otherwise (so inputs in (-0.5, 0) give
\* Disabled and inputs in (1000, 1000.5) give None); for a finite input of
\* magnitude 2^63 or more the result is unspecified.
C15_FromRawByRoundedInput ==
    calc.fn = "TemperatureSensorKind::from_raw" =>
        /\ calc.x.cls = "nan" => calc.out = <<>>
        /\ calc.x.cls = "inf" => calc.out = (IF calc.x.h > 0 THEN <<Thermistor>> ELSE <<>>)
        /\ calc.x.cls \in {"fin", "negzero"} =>
            LET n == Nearest(calc.x)
            IN calc.out = (IF n < 0 THEN <<>>
                           ELSE IF n > ThermistorThreshold THEN <<Thermistor>>
                           ELSE IF n <= IntelPECI THEN <<n>>
                           ELSE <<>>)
        /\ calc.x.cls = "huge" =>
            calc.out \in {<<>>} \cup {<<k>> : k \in TemperatureSensorKinds}

\* from_raw(1000.49) returned None.
C15_Witness ==
    /\ calc.fn = "TemperatureSensorKind::from_raw"
    /\ calc.x = Double(ThermistorThreshold * 100 + 49)
    /\ calc.out = <<>>

\* C16, as stated: for every finite x, from_raw(x) is determined by n, x
\* rounded to the nearest integer: None when n < 0, Thermistor when n > 1000,
\* the variant with discriminant n when 0 <= n <= 6, None when 7 <= n <= 1000.
C16_FromRawFinite ==
    (calc.fn = "TemperatureSensorKind::from_raw" /\ calc.x.cls \in {"fin", "negzero", "huge"}) =>
        /\ (calc.x.cls = "huge" /\ calc.x.h < 0) => calc.out = <<>>
        /\ (calc.x.cls = "huge" /\ calc.x.h > 0) => calc.out = <<Thermistor>>
        /\ calc.x.cls # "huge" =>
            LET n == Nearest(calc.x)
            IN /\ n < 0 => calc.out = <<>>
               /\ n > ThermistorThreshold => calc.out = <<Thermistor>>
               /\ n \in 0..IntelPECI => calc.out = <<n>>
               /\ n \in (IntelPECI + 1)..ThermistorThreshold => calc.out = <<>>

\* What the variant named like a kind carries (enum Value).
Carries(kind) == Arm(ValueVariants, kind)[2]

\* What C14 says of the kind and raw value of a value Value::new returned.
RoundTrips ==
    /\ calc.out_kind = <<calc.kind>>
    /\ Carries(calc.kind) \in {"f64", "Kind, f64"} => calc.out_raw_value = <<calc.v>>
    /\ Carries(calc.kind) = "bool" =>
        calc.out_raw_value =
            <<IF calc.v \in {Double(0), [cls |-> "negzero", h |-> 0]} THEN Double(0)
              ELSE Double(100)>>

\* C14, as stated: there are 87 kinds, and for every kind and every raw value
\* v, Value::new(kind, v) is a value whose kind() is `kind`, whose raw_value()
\* is v itself for a kind carrying a double, and 1.0 for a non-zero v and 0.0
\* for a zero v for a kind carrying a boolean.
C14_NewRoundTrips ==
    /\ Cardinality(Kinds) = 87
    /\ calc.fn = "Value::new" => (calc.out # <<>> /\ RoundTrips)

\* C14, amended: the same of every value Value::new returns; it returns None
\* only for kind TemperatureType, when TemperatureSensorKind::from_raw(v) is
\* None.
C14_NewRoundTripsWhenSome ==
    /\ Cardinality(Kinds) = 87
    /\ calc.fn = "Value::new" =>
        /\ calc.out # <<>> => RoundTrips
        /\ calc.out = <<>> =>
            (calc.kind = "TemperatureType" /\ <<>> \in TemperatureSensorKind_from_raw(calc.v))

\* Value::new(VoltageAlarm, -0.51) returned a value whose raw value is 1.0.
C14_Witness ==
    /\ calc.fn = "Value::new"
    /\ calc.kind = "VoltageAlarm"
    /\ calc.v = Double(0 - 51)
    /\ calc.out_raw_value = <<Double(100)>>

\* What C17 says of the kinds and of the raw values of kinds and numbers.
BusKindRoundTrips ==
    /\ calc.fn = "bus::Kind::as_raw" => (calc.raw \in c_short /\ calc.decoded = <<calc.k>>)
    /\ calc.fn = "bus::Kind::from_raw" =>
        /\ calc.out # <<>> => calc.reencoded = <<calc.n>>
        /\ calc.n \notin 0 - 1 .. 8 => calc.out = <<>>
        /\ calc.n \in 0 - 1 .. 8 => calc.out # <<>>
    /\ calc.fn = "bus::Number" => (calc.raw \in c_short /\ calc.reencoded = calc.raw)

\* C17, as stated: every bus Kind and every bus Number decodes from its raw
\* form to itself; every recognized raw kind code and every raw number encodes
\* from its decoded form to itself; an unrecognized kind code decodes to None.
C17_BusRoundTrips ==
    /\ BusKindRoundTrips
    /\ calc.fn = "bus::Number" => calc.decoded = calc.x

\* C17, amended: as stated for kinds and raw values; a bus Number decodes from
\* its raw form to itself unless it is Number(-1) or Number(-2), whose raw
\* forms are the sentinels and decode to Any and Ignore.
C17_BusRoundTripsButSentinels ==
    /\ BusKindRoundTrips
    /\ calc.fn = "bus::Number" =>
        calc.decoded =
            (IF calc.x = Number_Number(0 - 1) THEN Number_Any
             ELSE IF calc.x = Number_Number(0 - 2) THEN Number_Ignore
             ELSE calc.x)

\* Number::Number(-2) was encoded and decoded: it came back as Ignore.
C17_Witness ==
    /\ calc.fn = "bus::Number"
    /\ calc.x = Number_Number(0 - 2)
    /\ calc.decoded = Number_Ignore

\* C18: value() and set_value() call the backend with the record of the
\* sub-feature's chip and the sub-feature's own number, and value() converts
\* the double read by the sub-feature's own raw kind.
C18_KeyedByOwnNumber ==
    calc.fn \in {"SubFeatureRef::value", "SubFeatureRef::set_value"} =>
        /\ \A c \in {calc.call[n] : n \in 1..Len(calc.call)} :
            c.chip = calc.sf.chip /\ c.number = calc.sf.number
        /\ (calc.fn = "SubFeatureRef::value" /\ calc.value # <<>>) =>
            Value_kind(calc.value[1]) = calc.sf.raw_kind

\* C19: set_value(v) fails without a call of sensors_set_value when the kind
\* of v is not the kind of the sub-feature.
C19_RejectedKindNotWritten ==
    (calc.fn = "SubFeatureRef::set_value"
        /\ Kind_from_raw(calc.sf.raw_kind) # <<Value_kind(calc.new_value)>>) =>
        /\ calc.out.tag # "Ok"
        /\ calc.call = <<>>

\* C20: raw_name() first calls the backend with no buffer (size 0), then
\* with a buffer one byte longer than the length the first call reported;
\* when the second call reports a length not smaller than the buffer the
\* result is the I/O error InvalidData, and otherwise the call succeeds with a
\* name of exactly the reported length.
C20_RawNameTwoCalls ==
    \A t \in Threads :
        op[t] = "raw_name" =>
            /\ pc[t] = "backend_call" => loc[t].buffer = 0
            /\ pc[t] = "backend_call2" => (loc[t].ret >= 0 /\ loc[t].buffer = loc[t].ret + 1)
            /\ (pc[t] = "done" /\ loc[t].called /\ loc[t].ret >= 0) =>
                IF loc[t].ret >= loc[t].buffer
                THEN loc[t].res.tag = "IO" /\ loc[t].res.kind = "InvalidData"
                ELSE loc[t].res.tag = "Ok" /\ loc[t].written = loc[t].ret

\* raw_name() has failed on a second call that reported a length equal to
\* the size of the buffer.
C20_Witness ==
    \E t \in Threads :
        /\ op[t] = "raw_name"
        /\ pc[t] = "done"
        /\ loc[t].ret = loc[t].buffer
        /\ loc[t].buffer > 0
        /\ loc[t].res.tag = "IO"

\* raw_label() has returned after its call of sensors_get_label.
LabelReturned(t) ==
    /\ op[t] = "raw_label"
    /\ pc[t] = "done"
    /\ loc[t].called

Released(c) == chips[c].state = "dropped"

\* C22: a record filled by a successful parse is freed exactly once, when its
\* Chip is dropped: never twice, never while a Chip or the caller holds it,
\* and a record no parse has filled is never freed.
C22_FreedExactlyOnce ==
    \A c \in 1..MaxParsed :
        /\ chips[c].frees <= 1
        /\ Released(c) => chips[c].frees = 1
        /\ chips[c].state \in {"none", "owned", "raw", "dropping"} => chips[c].frees = 0

\* C23, as stated: new_chip returns a Chip exactly when the parse returned
\* status 0, and otherwise an error that wraps the status of the parse; no
\* Chip holds the record of a failed parse.
C23_ChipOrStatusError ==
    \A t \in Threads :
        (op[t] = "new_chip" /\ pc[t] = "done" /\ loc[t].chip # 0) =>
            /\ loc[t].called
            /\ IF loc[t].ret = 0
               THEN loc[t].res.tag = "Ok" /\ chips[loc[t].chip].state = "owned"
               ELSE /\ loc[t].res.tag = "LMSensors"
                    /\ loc[t].res.number = Abs(loc[t].ret)
                    /\ chips[loc[t].chip].state = "none"

\* C23, amended: when the access lock is poisoned new_chip returns the
\* Poisoned error without calling the parse and without a Chip; otherwise it
\* is as stated.
C23_ChipOrStatusErrorUnlessPoisoned ==
    \A t \in Threads :
        (op[t] = "new_chip" /\ pc[t] = "done" /\ loc[t].chip # 0) =>
            IF loc[t].sawPoison
            THEN /\ ~loc[t].called
                 /\ loc[t].res.tag = "Poisoned"
                 /\ chips[loc[t].chip].state = "none"
            ELSE /\ loc[t].called
                 /\ IF loc[t].ret = 0
                    THEN loc[t].res.tag = "Ok" /\ chips[loc[t].chip].state = "owned"
                    ELSE /\ loc[t].res.tag = "LMSensors"
                         /\ loc[t].res.number = Abs(loc[t].ret)
                         /\ chips[loc[t].chip].state = "none"

\* new_chip has failed on a parse that returned a non-zero status.
C23_Witness ==
    \E t \in Threads :
        /\ op[t] = "new_chip"
        /\ pc[t] = "done"
        /\ loc[t].chip # 0
        /\ loc[t].ret # 0
        /\ loc[t].res.tag = "LMSensors"

\* A Chip exists, or an operation on it is running.
ChipInUse(c) == chips[c].state \in {"owned", "dropping"}

UnrecognizedKindRead ==
    /\ calc.fn = "SubFeatureRef::value"
    /\ StatusIsOk(calc.r)
    /\ calc.sf.raw_kind \notin Kinds

C26_PlaceholderOnFailedLookup ==
    (calc.fn = "Display::fmt" /\ calc.lookup = <<>>) =>
        calc.out = <<REPLACEMENT_CHARACTER>>

\* A step with which an initialize() of thread t fails: the configuration
\* cannot be opened, or new() gives up the lock without an instance (an
\* instance is live, sensors_init() returned non-zero, or the caller drops
\* the Poisoned error).  A panic that unwinds out of new() is not a return.
FailedInitializeStep(t) ==
    \/ /\ op[t] = "none"
       /\ op'[t] = "initialize"
       /\ pc'[t] = "done"
    \/ /\ op[t] = "initialize"
       /\ lockHolder = t
       /\ lockHolder' # t
       /\ pc'[t] # "dead"
       /\ ~(pc'[t] = "done" /\ loc'[t].res.tag = "Ok")

\* C27: an initialize() that fails leaves the error listener, the three
\* callback slots and the flag as they were when the call found them (when
\* new() took the lock, or at the call when the configuration cannot be
\* opened).
C27_FailedInitializeFrame ==
    [][\A t \in Threads :
          FailedInitializeStep(t) =>
              GlobalState' = (IF loc[t].before = <<>> THEN GlobalState
                              ELSE loc[t].before[1])]_vars

\* An initialize() that carries a custom listener has failed on a non-zero
\* status of sensors_init(), or on a live instance that has a custom
\* listener of its own, and the listener is as before the call.
C27_Witness ==
    \E t \in Threads :
        /\ op[t] = "initialize"
        /\ loc[t].error_listener \in ListenerIds
        /\ loc[t].before # <<>>
        /\ \/ pc[t] = "sensors_strerror"
           \/ pc[t] = "done" /\ loc[t].res.kind = "AlreadyExists"
                /\ ERROR_LISTENER \in ListenerIds
        /\ ERROR_LISTENER = loc[t].before[1].error_listener
        /\ ERROR_LISTENER # loc[t].error_listener

\* C28: set_raw_value(b) keeps the variant and the kind; when it succeeds
\* it returns the raw value held before, the value then holds what
\* Value::new(kind, b) may build (so raw_value() is b for a variant that
\* carries an f64, and 1.0 or 0.0 for one that carries a bool); it fails
\* only for TemperatureType, on a b that TemperatureSensorKind::from_raw
\* rejects, with the I/O error InvalidData and the value unchanged.
C28_SetRawValue ==
    calc.fn = "Value::set_raw_value" =>
        /\ calc.after.variant = calc.before.variant
        /\ Value_kind(calc.after) = calc.kind
        /\ IF calc.out.tag = "Ok"
           THEN /\ calc.result = <<Value_raw_value(calc.before)>>
                /\ <<calc.after>> \in Value_new(calc.kind, calc.b)
                /\ Arm(ValueVariants, calc.after.variant)[2] \in {"f64", "Kind, f64"} =>
                      Value_raw_value(calc.after) = calc.b
                /\ Arm(ValueVariants, calc.after.variant)[2] = "bool" =>
                      Value_raw_value(calc.after) =
                          (IF calc.b.cls \in {"negzero"} \/ calc.b = Double(0)
                           THEN Double(0) ELSE Double(100))
           ELSE /\ calc.before.variant = "TemperatureType"
                /\ <<>> \in TemperatureSensorKind_from_raw(calc.b)
                /\ calc.out.tag = "IO"
                /\ calc.out.kind = "InvalidData"
                /\ calc.result = <<>>
                /\ calc.after = calc.before
        /\ (calc.before.variant = "TemperatureType"
                /\ TemperatureSensorKind_from_raw(calc.b) = {<<>>}) =>
              calc.out.tag = "IO"

\* set_raw_value has stored a new value that differs from the old one, and
\* has been refused by a TemperatureType value.
C28_Witness ==
    /\ calc.fn = "Value::set_raw_value"
    /\ \/ calc.out.tag = "Ok" /\ calc.after # calc.before
       \/ calc.out.tag = "IO"

\* The positions at which a thread is inside new() or drop() with the guard
\* alive, or inside a backend call or a callback made under the guard.
UnderGuard ==
    LockedCalls \cup {"new_check", "new_ret", "drop_restore", "on_config_error",
                      "on_fatal_error"}

\* A drop that has taken the lock calls sensors_cleanup(), then restores the
\* callbacks and the listener and clears the flag, and only then gives up the
\* lock: the session ends only in that drop, with the flag still set; the
\* flag is cleared only after the cleanup has returned, in the step that puts
\* back the callbacks and the listener saved by the instance and unlocks; and
\* from the cleanup to that step no other thread is at one of `positions`.
DropAtomic(positions) ==
    /\ \A t \in Threads :
          pc[t] \in {"sensors_cleanup", "drop_restore"} =>
              /\ lockHolder = t
              /\ INITIALIZED
              /\ callBacks = ReporterCallBacks
              /\ \A u \in Threads \ {t} : pc[u] \notin positions
    /\ backendSessions' < backendSessions =>
          \E t \in Threads :
              /\ pc[t] = "sensors_cleanup"
              /\ pc'[t] = "drop_restore"
              /\ lockHolder' = t
              /\ INITIALIZED'
              /\ callBacks' = callBacks
    /\ (INITIALIZED /\ ~INITIALIZED') =>
          \E t \in Threads :
              /\ pc[t] = "drop_restore"
              /\ loc[t].called
              /\ lockHolder = t
              /\ lockHolder' = NoThread
              /\ callBacks' = loc[t].reporter[1].previous_call_backs
              /\ callBacks' # ReporterCallBacks
              /\ ERROR_LISTENER' = loc[t].reporter[1].previous_error_listener

\* C29, as stated: drop cleans up, restores and clears the flag within one
\* hold of the lock, and between the cleanup and the clearing of the flag no
\* other thread is inside initialize() or inside any backend call.
C29_DropAtomic ==
    [][DropAtomic(UnderGuard \cup {"sensors_strerror"})]_vars

\* C29, amended: as stated, for the backend calls made under the guard;
\* another thread may be inside sensors_strerror(), which an operation calls
\* after it has released the guard.
C29_DropAtomicButStrerror ==
    [][DropAtomic(UnderGuard)]_vars

\* A drop is between its cleanup and the clearing of the flag while another
\* thread waits for the lock in initialize() or in an operation.
C29_Witness ==
    \E t \in Threads :
        /\ pc[t] = "drop_restore"
        /\ \E u \in Threads \ {t} : pc[u] \in {"new_lock", "op_lock"}

\* No thread is inside a call or holds an instance.
Quiescent ==
    /\ ~aborted
    /\ \A t \in Threads : pc[t] \in {"idle", "dead"} /\ libs[t] = <<>>

\* No listener is freed twice or installed after it was freed, and an
\* initialize() that has failed has freed its listener and has not left it
\* installed.
ListenerSafe ==
    /\ \A l \in ListenerIds : listenerState[l] # "double_freed"
    /\ ERROR_LISTENER # NullListener => listenerState[ERROR_LISTENER] = "boxed"
    /\ \A t \in Threads :
          (op[t] = "initialize" /\ pc[t] = "done" /\ loc[t].res.tag # "Ok"
              /\ loc[t].error_listener # NullListener) =>
              /\ listenerState[loc[t].error_listener] = "freed"
              /\ ERROR_LISTENER # loc[t].error_listener

\* C30: every listener handed to an Initializer is freed exactly once and is
\* never the installed listener after it was freed: a failed initialize()
\* has freed it, and once every instance has been dropped every listener has
\* been freed and none is installed.
C30_ListenerFreedOnce ==
    /\ ListenerSafe
    /\ Quiescent =>
          /\ ERROR_LISTENER = NullListener
          /\ \A l \in ListenerIds : listenerState[l] \in {"unused", "freed"}

====
